---------------------------- MODULE Spec2Model ----------------------------
(***************************************************************************)
(* Packet classification and admission control of marchproxy: the XDP      *)
(* programs enhanced_rules.c (process_packet), xdp_filter.c                *)
(* (xdp_marchproxy_filter), rate_limit.c (xdp_rate_limiter) and            *)
(* rule_matcher.bpf.c (rule_matcher_xdp), and the TC program marchproxy.c  *)
(* (marchproxy_ingress).  One program is attached to the                   *)
(* interface (variable prog); every packet is processed run to completion  *)
(* by one action.  Frames are byte sequences; the parsers read them at the *)
(* offsets the C code reads them.                                          *)
(***************************************************************************)
EXTENDS Integers, Sequences, FiniteSets, TLC

VARIABLES
    prog,               \* the program attached: "er", "xf", "rl", "rm", "mp", ...
    pkts,               \* the packets (indices in Packets; for "ev" the
                        \* arguments of EvBuf) that may arrive
    now,                \* bpf_ktime_get_ns(), in ticks
    npk,                \* number of packets processed so far
    pkt,                \* index in Packets of the last packet, 0 before the first
    verdict,            \* XDP verdict of the last packet
    note,               \* what the last packet's processing did (observer)
    \* enhanced_rules.c; envoy_xdp.c has maps of the names rate_limit_map,
    \* rate_limit_config_map and stats_map, held by the same variables when
    \* it is the program attached (prog = "ev")
    services_map, rules_map, rate_limit_map, connection_map, auth_tokens_map,
    stats_map,
    \* xdp_filter.c
    service_rules, connection_table, xf_stats_map,
    \* rate_limit.c
    rate_limit_config_map, enterprise_license_map, ip_rate_state_map,
    global_rate_state_map, rate_limit_stats_map,
    rl_win,             \* observer: per source (and for the global scope,
                        \* under RlGlobalKey), the window its packets are in
    \* rule_matcher.bpf.c
    rm_service_rules, statistics,
    \* marchproxy.c
    mappings_map, mp_services_map, connections_map, proxy_stats,
    \* several CPUs run a program at once (prog ends in _smp)
    cpus,               \* per CPU: the statement it is at and its registers
    smp_obs             \* observer: what the completed calls returned

vars == <<prog, pkts, now, npk, pkt, verdict, note,
          services_map, rules_map, rate_limit_map, connection_map,
          auth_tokens_map, stats_map,
          service_rules, connection_table, xf_stats_map,
          rate_limit_config_map, enterprise_license_map, ip_rate_state_map,
          global_rate_state_map, rate_limit_stats_map, rl_win,
          rm_service_rules, statistics,
          mappings_map, mp_services_map, connections_map, proxy_stats,
          cpus, smp_obs>>

er_vars == <<services_map, rules_map, rate_limit_map, connection_map,
             auth_tokens_map, stats_map>>
xf_vars == <<service_rules, connection_table, xf_stats_map>>
rl_vars == <<rate_limit_config_map, enterprise_license_map, ip_rate_state_map,
             global_rate_state_map, rate_limit_stats_map, rl_win>>
rm_vars == <<rm_service_rules, statistics>>
mp_vars == <<mappings_map, mp_services_map, connections_map, proxy_stats>>
smp_vars == <<cpus, smp_obs>>

---------------------------------------------------------------------------
(* Bounds of the model *)

MaxPackets == 3         \* packets processed in one behaviour
MaxRlPackets == 5       \* the same, for the rate limiter
MaxEvPackets == 2       \* the same, for envoy_xdp.c
MaxEvRlPackets == 4     \* the same, for the traffic of EvRlPkts
MaxTime == 3            \* the clock stops advancing here
TicksPerSec == 2        \* clock ticks per second (1000000000 ns)
ConnCap == 2            \* max_entries of the connection tables, scaled
ServiceSlots == 2       \* MAX_SERVICES, scaled: the keys the scans visit
MappingSlots == 2       \* MAX_MAPPINGS, scaled: the ids find_mapping visits
NCpus == 2              \* CPUs that run the program at the same time
MaxSmpPackets == 3      \* packets the CPUs process in all
RuleSlots == 2          \* the 1000 rule ids rule_matcher_xdp visits, scaled
WordBits == 4           \* bits of a __u32, scaled; a __u64 has twice as many

---------------------------------------------------------------------------
(* Program constants *)

ETH_HLEN == 14          \* sizeof(struct ethhdr)
IP_HLEN == 20           \* sizeof(struct iphdr)
TCP_HLEN == 20          \* sizeof(struct tcphdr)
UDP_HLEN == 8           \* sizeof(struct udphdr)
ICMP_HLEN == 8          \* sizeof(struct icmphdr)
ETH_P_IP == 2048        \* 0x0800
PROTO_TCP == 6
PROTO_UDP == 17
PROTO_ICMP == 1
AUTH_NONE == 0
AUTH_SIMPLE == 1
AUTH_COMPLEX == 2
ACTION_DROP == 1        \* enhanced_rules.c rule action

XDP_DROP == "XDP_DROP"
XDP_PASS == "XDP_PASS"
XDP_REDIRECT == "XDP_REDIRECT"   \* what bpf_redirect_map(&afxdp_redirect_map, 0, 0) returns
NULL == "NULL"
TC_ACT_OK == "TC_ACT_OK"
TC_ACT_SHOT == "TC_ACT_SHOT"
MAX_PORTS == 16

---------------------------------------------------------------------------
(* 16-bit limbs: a __u32 is <<high 16 bits, low 16 bits>> *)

RECURSIVE Xor(_, _)
Xor(a, b) ==
    IF a = 0 THEN b
    ELSE IF b = 0 THEN a
    ELSE ((a + b) % 2) + 2 * Xor(a \div 2, b \div 2)

RECURSIVE Or(_, _)
Or(a, b) ==
    IF a = 0 THEN b
    ELSE IF b = 0 THEN a
    ELSE (IF a % 2 = 1 \/ b % 2 = 1 THEN 1 ELSE 0) + 2 * Or(a \div 2, b \div 2)

\* byte off (0-based) of the buffer; a read past data_end yields junk
Rd(buf, off, junk) == IF off < Len(buf) THEN buf[off + 1] ELSE junk

\* a __u16 / __be16 field loaded on a little-endian host
LoadU16(buf, off, junk) == Rd(buf, off, junk) + 256 * Rd(buf, off + 1, junk)

\* a __u32 / __be32 field loaded on a little-endian host
LoadU32(buf, off, junk) ==
    <<LoadU16(buf, off + 2, junk), LoadU16(buf, off, junk)>>

bpf_ntohs(x) == (x % 256) * 256 + (x \div 256)
bpf_htons(x) == bpf_ntohs(x)
bpf_ntohl(x) == <<bpf_ntohs(x[2]), bpf_ntohs(x[1])>>

\* the value the configuration plane stores for a dotted address a.b.c.d
inet_addr(a) == <<a[3] + 256 * a[4], a[1] + 256 * a[2]>>

---------------------------------------------------------------------------
(* Frames *)

Rep(n, b) == [i \in 1..n |-> b]
U16BE(x) == <<x \div 256, x % 256>>

EthHdr(etype) == Rep(12, 0) \o U16BE(etype)

IpHdr(ihl, proto, saddr, daddr) ==
    <<64 + ihl, 0, 0, 0, 0, 0, 0, 0, 64, proto, 0, 0>> \o saddr \o daddr
        \o Rep(IF ihl > 5 THEN (ihl - 5) * 4 ELSE 0, 1)

TcpHdr(sport, dport, doff) ==
    U16BE(sport) \o U16BE(dport) \o Rep(8, 0) \o <<doff * 16, 2, 0, 0, 0, 0, 0, 0>>
        \o Rep(IF doff > 5 THEN (doff - 5) * 4 ELSE 0, 1)

UdpHdr(sport, dport) == U16BE(sport) \o U16BE(dport) \o <<0, 8, 0, 0>>

IcmpHdr(type, code) == <<type, code, 0, 0, 0, 0, 0, 0>>

L4Hdr(proto, sport, dport, doff) ==
    IF proto = PROTO_TCP THEN TcpHdr(sport, dport, doff)
    ELSE IF proto = PROTO_UDP THEN UdpHdr(sport, dport)
    ELSE IF proto = PROTO_ICMP THEN IcmpHdr(dport, 0)
    ELSE <<>>

Frame(etype, ihl, proto, saddr, daddr, sport, dport, doff, payload) ==
    EthHdr(etype) \o IpHdr(ihl, proto, saddr, daddr)
        \o L4Hdr(proto, sport, dport, doff) \o payload

Min(a, b) == IF a < b THEN a ELSE b

\* a packet: what the sender meant (the fields) and what arrives (buf):
\* the frame cut to cut bytes when cut > 0
Pk(etype, ihl, proto, saddr, daddr, sport, dport, doff, payload, cut) ==
    LET f == Frame(etype, ihl, proto, saddr, daddr, sport, dport, doff, payload)
    IN  [etype |-> etype, ihl |-> ihl, proto |-> proto, saddr |-> saddr,
         daddr |-> daddr, sport |-> sport, dport |-> dport, doff |-> doff,
         payload |-> payload,
         buf |-> IF cut > 0 THEN SubSeq(f, 1, Min(cut, Len(f))) ELSE f]

S1 == <<10, 0, 1, 1>>
S2 == <<10, 0, 1, 2>>
D1 == <<10, 0, 0, 5>>
D2 == <<10, 0, 0, 6>>

\* payloads
Chr_A == 65
Chr_u == 117
Chr_t == 116
Chr_h == 104
Chr_G == 71
Chr_E == 69
Chr_T == 84
\* "Auth" at offset i, the 4 token bytes tok at offset i + 20, n bytes in all
AuthPayload(i, tok, n) ==
    [j \in 1..n |->
        IF j - 1 = i THEN Chr_A
        ELSE IF j - 1 = i + 1 THEN Chr_u
        ELSE IF j - 1 = i + 2 THEN Chr_t
        ELSE IF j - 1 = i + 3 THEN Chr_h
        ELSE IF j - 1 >= i + 20 /\ j - 1 < i + 24 THEN tok[j - i - 20]
        ELSE 120]
GetPayload(n) == <<Chr_G, Chr_E, Chr_T, 32>> \o Rep(n - 4, 120)
TlsPayload(n) == <<22, 3, 3, 0, 0>> \o Rep(n - 5, 0)
TOK1 == <<1, 0, 0, 0>>
TOK2 == <<2, 0, 0, 0>>
TOK3 == <<3, 0, 0, 0>>
TokenHash(tok) == <<tok[3] + 256 * tok[4], tok[1] + 256 * tok[2]>>

Tcp(saddr, daddr, dport, payload) ==
    Pk(ETH_P_IP, 5, PROTO_TCP, saddr, daddr, 1234, dport, 5, payload, 0)

Packets == <<
    \* truncated and unclassified frames (34525 = 0x86DD IPv6, 47 = GRE)
    Pk(ETH_P_IP, 5, PROTO_TCP, S1, D1, 1234, 80, 5, <<>>, 10),
    Pk(34525, 5, PROTO_TCP, S1, D1, 1234, 80, 5, <<>>, 0),
    Pk(ETH_P_IP, 5, PROTO_TCP, S1, D1, 1234, 80, 5, <<>>, 20),
    Pk(ETH_P_IP, 5, PROTO_TCP, S1, D1, 1234, 80, 5, <<>>, 53),
    Pk(ETH_P_IP, 6, PROTO_TCP, S1, D1, 1234, 80, 5, <<>>, 0),
    Pk(ETH_P_IP, 6, PROTO_TCP, S1, D1, 1234, 80, 5, <<>>, 54),
    Pk(ETH_P_IP, 5, PROTO_UDP, S1, D1, 1234, 80, 5, <<>>, 38),
    Pk(ETH_P_IP, 5, PROTO_ICMP, S1, D1, 0, 8, 5, <<>>, 0),
    Pk(ETH_P_IP, 5, PROTO_ICMP, S1, D1, 0, 8, 5, <<>>, 36),
    Pk(ETH_P_IP, 5, 47, S1, D1, 0, 0, 5, <<0, 0, 8, 0>>, 0),
    Pk(ETH_P_IP, 6, 47, S1, D1, 0, 0, 5, <<0, 0, 8, 0>>, 34),
    \* well-formed flows
    Tcp(S1, D1, 80, <<>>),
    Tcp(S1, D1, 443, <<>>),
    Tcp(S2, D1, 80, <<>>),
    Tcp(S1, D2, 80, <<>>),
    Pk(ETH_P_IP, 5, PROTO_UDP, S1, D1, 1234, 80, 5, <<>>, 0),
    \* payloads
    Tcp(S1, D1, 80, GetPayload(32)),
    Tcp(S1, D1, 80, GetPayload(10)),
    Tcp(S1, D1, 80, TlsPayload(32)),
    Tcp(S1, D1, 80, Rep(32, 120)),
    Tcp(S1, D1, 80, AuthPayload(0, TOK1, 32)),
    Tcp(S1, D1, 80, AuthPayload(0, TOK2, 32)),
    Tcp(S1, D1, 80, AuthPayload(0, TOK3, 32)),
    Tcp(S1, D1, 80, AuthPayload(12, TOK1, 32)),
    \* to the second service, no token
    Tcp(S1, D2, 80, Rep(32, 120)),
    \* UDP to a destination no table knows
    Pk(ETH_P_IP, 5, PROTO_UDP, S1, D2, 1234, 53, 5, <<>>, 0),
    \* TLS application data record (0x17 0x03 0x03) and a bare 5-byte
    \* handshake record header (0x16 0x03 0x01)
    Tcp(S1, D1, 80, <<23, 3, 3, 0, 0>> \o Rep(27, 0)),
    Tcp(S1, D1, 80, <<22, 3, 1, 0, 0>>),
    \* GRE with a header length below the minimum
    Pk(ETH_P_IP, 4, 47, S1, D1, 0, 0, 5, <<0, 0, 8, 0>>, 0),
    \* GRE cut inside the IP header, behind the protocol byte
    Pk(ETH_P_IP, 5, 47, S1, D1, 0, 0, 5, <<0, 0, 8, 0>>, 30),
    \* requests and their replies: NTP between two peers (port 123 on both
    \* sides), and a client on port 1234
    Pk(ETH_P_IP, 5, PROTO_UDP, S1, D1, 123, 123, 5, <<>>, 0),
    Pk(ETH_P_IP, 5, PROTO_UDP, D1, S1, 123, 123, 5, <<>>, 0),
    Pk(ETH_P_IP, 5, PROTO_UDP, S1, D1, 1234, 123, 5, <<>>, 0),
    Pk(ETH_P_IP, 5, PROTO_UDP, D1, S1, 123, 1234, 5, <<>>, 0),
    \* a second TCP flow of the same client, to port 82
    Tcp(S1, D1, 82, <<>>),
    \* TCP with a header length below the minimum: 16 bytes behind the start
    \* of the IP header lies the destination address
    Pk(ETH_P_IP, 4, PROTO_TCP, S1, D1, 1234, 80, 5, <<>>, 0)
>>

NPackets == Len(Packets)
JunkBytes == {0, 1}     \* what a read past data_end may yield


---------------------------------------------------------------------------
(* BPF maps.  A hash map is a function whose domain is the set of keys     *)
(* present.  An LRU hash map is [tab, lru]: lru lists the keys, least      *)
(* recently used first.                                                    *)

Touch(lru, k) == SelectSeq(lru, LAMBDA x : x # k) \o <<k>>

\* bpf_map_lookup_elem on an LRU map marks the entry as recently used
lru_lookup(m, k) ==
    IF k \in DOMAIN m.tab THEN [tab |-> m.tab, lru |-> Touch(m.lru, k)] ELSE m

\* BPF_MAP_TYPE_HASH: a new key does not fit into a full map (-E2BIG)
hash_update(m, k, v, cap) ==
    IF k \in DOMAIN m.tab
    THEN [tab |-> [m.tab EXCEPT ![k] = v], lru |-> Touch(m.lru, k)]
    ELSE IF Cardinality(DOMAIN m.tab) < cap
    THEN [tab |-> (k :> v) @@ m.tab, lru |-> Append(m.lru, k)]
    ELSE m

\* BPF_MAP_TYPE_LRU_HASH, bpf_map_update_elem(.., BPF_ANY): a new key in a
\* full map takes the place of the least recently used entry
lru_update(m, k, v, cap) ==
    IF k \in DOMAIN m.tab
    THEN [tab |-> [m.tab EXCEPT ![k] = v], lru |-> Touch(m.lru, k)]
    ELSE IF Cardinality(DOMAIN m.tab) < cap
    THEN [tab |-> (k :> v) @@ m.tab, lru |-> Append(m.lru, k)]
    ELSE [tab |-> (k :> v) @@ [x \in DOMAIN m.tab \ {Head(m.lru)} |-> m.tab[x]],
          lru |-> Append(Tail(m.lru), k)]

EmptyLru == [tab |-> <<>>, lru |-> <<>>]
Inc(st, f) == [st EXCEPT ![f] = @ + 1]

---------------------------------------------------------------------------
(* enhanced_rules.c *)

hash_connection(src_ip, dst_ip, src_port, dst_port, proto) ==
    <<Xor(Xor(src_ip[1], dst_ip[1]), src_port),
      Xor(Xor(src_ip[2], dst_ip[2]), Xor(dst_port, proto))>>

\* the values of a __u32 and of a __u64 are 0 .. U32 - 1 and 0 .. U64 - 1
U32 == 2 ^ WordBits
U64 == 2 ^ (2 * WordBits)

\* __u32 tokens_to_add = (time_diff * limit_pps) / 1000000000ULL with the
\* clock in ticks: the product is a __u64, the quotient is cut to a __u32
TokensToAdd(time_diff, limit_pps) ==
    ((((time_diff % U64) * limit_pps) % U64) \div TicksPerSec) % U32

\* returns [ret, map]: ret = 1 allow, 0 rate limited
check_rate_limit(key, limit_pps, t, rlm) ==
    IF key \notin DOMAIN rlm
    THEN [ret |-> 1,
          map |-> (key :> [key |-> key, last_update |-> t, packet_count |-> 1,
                           byte_count |-> 0, tokens |-> limit_pps - 1]) @@ rlm]
    ELSE
        LET entry == rlm[key]
            tokens_to_add == TokensToAdd(t - entry.last_update, limit_pps)
            \* entry->tokens += tokens_to_add on a __u32
            sum == (entry.tokens + tokens_to_add) % U32
            e1 == IF tokens_to_add > 0
                  THEN [entry EXCEPT
                          !.tokens = IF sum > limit_pps THEN limit_pps ELSE sum,
                          !.last_update = t]
                  ELSE entry
        IN  IF e1.tokens > 0
            THEN [ret |-> 1,
                  map |-> [rlm EXCEPT ![key] =
                             [e1 EXCEPT !.tokens = @ - 1,
                                        !.packet_count = (@ + 1) % U32]]]
            ELSE [ret |-> 0, map |-> [rlm EXCEPT ![key] = e1]]

\* the scan for "Auth" in the first bytes of the payload: the token hash
\* read at payload + i + 20, <<0, 0>> when the pattern is not found
RECURSIVE auth_scan(_, _, _, _)
auth_scan(buf, payload, i, junk) ==
    IF ~(i < 24 /\ payload + i + 8 < Len(buf)) THEN <<0, 0>>
    ELSE IF /\ Rd(buf, payload + i, junk) = Chr_A
            /\ Rd(buf, payload + i + 1, junk) = Chr_u
            /\ Rd(buf, payload + i + 2, junk) = Chr_t
            /\ Rd(buf, payload + i + 3, junk) = Chr_h
         THEN LoadU32(buf, payload + i + 20, junk)
         ELSE auth_scan(buf, payload, i + 1, junk)

\* 1 = accepted, 0 = rejected
check_authentication(buf, service_id, t, atm, junk) ==
    IF ETH_HLEN > Len(buf) THEN 0
    ELSE IF LoadU16(buf, 12, junk) # bpf_htons(ETH_P_IP) THEN 1
    ELSE IF ETH_HLEN + IP_HLEN > Len(buf) THEN 0
    ELSE IF Rd(buf, ETH_HLEN + 9, junk) # PROTO_TCP THEN 1
    ELSE
        LET tcp == ETH_HLEN + (Rd(buf, ETH_HLEN, junk) % 16) * 4
        IN  IF tcp + TCP_HLEN > Len(buf) THEN 0
            ELSE
                LET payload == tcp + (Rd(buf, tcp + 12, junk) \div 16) * 4
                    token_hash == auth_scan(buf, payload, 0, junk)
                IN  IF payload + 32 > Len(buf) THEN 1
                    ELSE IF token_hash = <<0, 0>> THEN 0
                    ELSE IF token_hash \notin DOMAIN atm THEN 0
                    ELSE IF t > atm[token_hash].expiry_time THEN 0
                    ELSE IF /\ atm[token_hash].service_id # service_id
                            /\ atm[token_hash].service_id # 0 THEN 0
                    ELSE 1

update_connection_tracking(src_ip, dst_ip, src_port, dst_port, protocol, service_id, packet_len, t, cm) ==
    LET conn_hash == hash_connection(src_ip, dst_ip, src_port, dst_port, protocol)
    IN  IF conn_hash \notin DOMAIN cm.tab
        THEN lru_update(cm, conn_hash,
                 [src_ip |-> src_ip, dst_ip |-> dst_ip, src_port |-> src_port,
                  dst_port |-> dst_port, protocol |-> protocol, state |-> 1,
                  last_activity |-> t, packets_rx |-> 1, packets_tx |-> 0,
                  bytes_rx |-> packet_len, bytes_tx |-> 0,
                  service_id |-> service_id], ConnCap)
        ELSE LET m == lru_lookup(cm, conn_hash)
             IN  [m EXCEPT !.tab[conn_hash] =
                     [@ EXCEPT !.last_activity = t, !.packets_rx = @ + 1,
                               !.bytes_rx = @ + packet_len]]

\* needs_complex_processing without the test of AUTH_COMPLEX
needs_complex_processing_ignores_auth_type(buf, service, junk) ==
    IF service.requires_tls # 0 THEN 1
    ELSE IF service.allows_websocket # 0 THEN 1
    ELSE IF ETH_HLEN > Len(buf) THEN 1
    ELSE IF LoadU16(buf, 12, junk) # bpf_htons(ETH_P_IP) THEN 0
    ELSE IF ETH_HLEN + IP_HLEN > Len(buf) THEN 1
    ELSE IF Rd(buf, ETH_HLEN + 9, junk) = PROTO_TCP
    THEN
        LET tcp == ETH_HLEN + (Rd(buf, ETH_HLEN, junk) % 16) * 4
            payload == tcp + (Rd(buf, tcp + 12, junk) \div 16) * 4
        IN  IF tcp + TCP_HLEN > Len(buf) THEN 1
            ELSE IF bpf_ntohs(LoadU16(buf, tcp + 2, junk)) = 443 THEN 1
            ELSE IF payload + 6 <= Len(buf)
            THEN IF /\ Rd(buf, payload, junk) = 22
                    /\ Rd(buf, payload + 1, junk) = 3 THEN 1
                 ELSE IF /\ Rd(buf, payload, junk) = Chr_G
                         /\ Rd(buf, payload + 1, junk) = Chr_E
                         /\ Rd(buf, payload + 2, junk) = Chr_T THEN 1
                 ELSE 0
            ELSE 0
    ELSE 0

\* the same without the test of requires_tls
needs_complex_processing_ignores_tls(buf, service, junk) ==
    IF service.allows_websocket # 0 THEN 1
    ELSE IF service.auth_type = AUTH_COMPLEX THEN 1
    ELSE IF ETH_HLEN > Len(buf) THEN 1
    ELSE IF LoadU16(buf, 12, junk) # bpf_htons(ETH_P_IP) THEN 0
    ELSE IF ETH_HLEN + IP_HLEN > Len(buf) THEN 1
    ELSE IF Rd(buf, ETH_HLEN + 9, junk) = PROTO_TCP
    THEN
        LET tcp == ETH_HLEN + (Rd(buf, ETH_HLEN, junk) % 16) * 4
            payload == tcp + (Rd(buf, tcp + 12, junk) \div 16) * 4
        IN  IF tcp + TCP_HLEN > Len(buf) THEN 1
            ELSE IF bpf_ntohs(LoadU16(buf, tcp + 2, junk)) = 443 THEN 1
            ELSE IF payload + 6 <= Len(buf)
            THEN IF /\ Rd(buf, payload, junk) = 22
                    /\ Rd(buf, payload + 1, junk) = 3 THEN 1
                 ELSE IF /\ Rd(buf, payload, junk) = Chr_G
                         /\ Rd(buf, payload + 1, junk) = Chr_E
                         /\ Rd(buf, payload + 2, junk) = Chr_T THEN 1
                 ELSE 0
            ELSE 0
    ELSE 0

\* 1 = redirect to the Go proxy, 0 = simple processing
needs_complex_processing(buf, service, junk) ==
    IF service.requires_tls # 0 THEN 1
    ELSE IF service.allows_websocket # 0 THEN 1
    ELSE IF service.auth_type = AUTH_COMPLEX THEN 1
    ELSE IF ETH_HLEN > Len(buf) THEN 1
    ELSE IF LoadU16(buf, 12, junk) # bpf_htons(ETH_P_IP) THEN 0
    ELSE IF ETH_HLEN + IP_HLEN > Len(buf) THEN 1
    ELSE IF Rd(buf, ETH_HLEN + 9, junk) = PROTO_TCP
    THEN
        LET tcp == ETH_HLEN + (Rd(buf, ETH_HLEN, junk) % 16) * 4
            payload == tcp + (Rd(buf, tcp + 12, junk) \div 16) * 4
        IN  IF tcp + TCP_HLEN > Len(buf) THEN 1
            ELSE IF bpf_ntohs(LoadU16(buf, tcp + 2, junk)) = 443 THEN 1
            ELSE IF payload + 6 <= Len(buf)
            THEN IF /\ Rd(buf, payload, junk) = 22
                    /\ Rd(buf, payload + 1, junk) = 3 THEN 1
                 ELSE IF /\ Rd(buf, payload, junk) = Chr_G
                         /\ Rd(buf, payload + 1, junk) = Chr_E
                         /\ Rd(buf, payload + 2, junk) = Chr_T THEN 1
                 ELSE 0
            ELSE 0
    ELSE 0

\* a bounds check that lets a header through that is one byte short
past_end_off_by_one(buf, end) == end > Len(buf) + 1

\* (void *)(hdr + 1) > data_end, for a header that ends at offset end
past_end(buf, end) == end > Len(buf)

\* the header parsing of process_packet: out is "drop_invalid",
\* "pass_simple" or "ok" (then the 5-tuple is set)
ErHdr(out, buf, th, sp, dp) ==
    [out |-> out,
     src_ip |-> LoadU32(buf, ETH_HLEN + 12, 0),
     dst_ip |-> LoadU32(buf, ETH_HLEN + 16, 0),
     protocol |-> Rd(buf, ETH_HLEN + 9, 0),
     src_port |-> sp, dst_port |-> dp]

er_parse(buf) ==
    IF past_end(buf, ETH_HLEN) THEN ErHdr("drop_invalid", buf, 0, 0, 0)
    ELSE IF LoadU16(buf, 12, 0) # bpf_htons(ETH_P_IP)
    THEN ErHdr("pass_simple", buf, 0, 0, 0)
    ELSE IF past_end(buf, ETH_HLEN + IP_HLEN) THEN ErHdr("drop_invalid", buf, 0, 0, 0)
    ELSE
        LET protocol == Rd(buf, ETH_HLEN + 9, 0)
            th == ETH_HLEN + (Rd(buf, ETH_HLEN, 0) % 16) * 4
        IN  IF protocol = PROTO_TCP
            THEN IF past_end(buf, th + TCP_HLEN)
                 THEN ErHdr("drop_invalid", buf, th, 0, 0)
                 ELSE ErHdr("ok", buf, th, bpf_ntohs(LoadU16(buf, th, 0)),
                            bpf_ntohs(LoadU16(buf, th + 2, 0)))
            ELSE IF protocol = PROTO_UDP
            THEN IF past_end(buf, th + UDP_HLEN)
                 THEN ErHdr("drop_invalid", buf, th, 0, 0)
                 ELSE ErHdr("ok", buf, th, bpf_ntohs(LoadU16(buf, th, 0)),
                            bpf_ntohs(LoadU16(buf, th + 2, 0)))
            ELSE IF protocol = PROTO_ICMP
            THEN IF past_end(buf, th + ICMP_HLEN)
                 THEN ErHdr("drop_invalid", buf, th, 0, 0)
                 ELSE ErHdr("ok", buf, th, 0, Rd(buf, th, 0))
            ELSE ErHdr("pass_simple", buf, th, 0, 0)

\* the scan without the test of the protocol
RECURSIVE er_find_service_any_protocol(_, _, _, _, _)
er_find_service_any_protocol(sm, service_key, dst_ip, dst_port, protocol) ==
    IF service_key > ServiceSlots THEN 0
    ELSE IF /\ service_key \in DOMAIN sm
            /\ sm[service_key].ip_addr = dst_ip
            /\ dst_port >= sm[service_key].port_start
            /\ dst_port <= sm[service_key].port_end
         THEN service_key
         ELSE er_find_service_any_protocol(sm, service_key + 1, dst_ip, dst_port, protocol)

\* the scan of services_map from key service_key on: the first key whose
\* service matches, 0 when the scan ends without a match
RECURSIVE er_find_service(_, _, _, _, _)
er_find_service(sm, service_key, dst_ip, dst_port, protocol) ==
    IF service_key > ServiceSlots THEN 0
    ELSE IF /\ service_key \in DOMAIN sm
            /\ sm[service_key].ip_addr = dst_ip
            /\ dst_port >= sm[service_key].port_start
            /\ dst_port <= sm[service_key].port_end
            /\ (sm[service_key].protocol = 0 \/ sm[service_key].protocol = protocol)
         THEN service_key
         ELSE er_find_service(sm, service_key + 1, dst_ip, dst_port, protocol)

\* process_packet with connection tracking ahead of the rate limiter's verdict
process_packet_tracks_rate_limited(buf, t, junk, sm, rlm, cm, atm, st) ==
    LET st0 == [st EXCEPT !.total_packets = @ + 1, !.last_update = t]
        h == er_parse(buf)
        service_key == er_find_service(sm, 1, h.dst_ip, h.dst_port, h.protocol)
        service == sm[service_key]
        sm1 == [sm EXCEPT ![service_key] =
                   [@ EXCEPT !.packet_count = @ + 1,
                             !.byte_count = @ + Len(buf),
                             !.last_activity = t]]
        limited == service.rate_limit_pps > 0
        rl == IF limited
              THEN check_rate_limit(h.src_ip, service.rate_limit_pps, t, rlm)
              ELSE [ret |-> 1, map |-> rlm]
        cm1 == update_connection_tracking(h.src_ip, h.dst_ip, h.src_port,
                   h.dst_port, h.protocol, service_key, Len(buf), t, cm)
        simple == service.auth_type = AUTH_SIMPLE
        auth == IF simple
                THEN check_authentication(buf, service_key, t, atm, junk)
                ELSE 1
        n1 == IF limited THEN {"service", "rate_limit"} ELSE {"service"}
        n2 == (n1 \cup {"conntrack"}) \cup (IF simple THEN {"auth"} ELSE {})
    IN
    IF h.out = "drop_invalid"
    THEN [verdict |-> XDP_DROP, sm |-> sm, rlm |-> rlm, cm |-> cm,
          st |-> Inc(Inc(st0, "dropped_packets"), "invalid_packets"),
          note |-> {"drop_invalid"}]
    ELSE IF h.out = "pass_simple"
    THEN [verdict |-> XDP_PASS, sm |-> sm, rlm |-> rlm, cm |-> cm,
          st |-> Inc(st0, "passed_packets"), note |-> {"pass_simple"}]
    ELSE IF service_key = 0
    THEN [verdict |-> XDP_PASS, sm |-> sm, rlm |-> rlm, cm |-> cm,
          st |-> Inc(st0, "passed_packets"), note |-> {"pass_simple", "no_service"}]
    ELSE IF rl.ret = 0
    THEN [verdict |-> XDP_DROP, sm |-> sm1, rlm |-> rl.map, cm |-> cm1,
          st |-> Inc(Inc(st0, "rate_limited"), "dropped_packets"),
          note |-> n1 \cup {"drop_rate_limited"}]
    ELSE IF auth = 0
    THEN [verdict |-> XDP_DROP, sm |-> sm1, rlm |-> rl.map, cm |-> cm1,
          st |-> Inc(Inc(st0, "auth_failures"), "dropped_packets"),
          note |-> n2 \cup {"drop_auth_failure"}]
    ELSE IF needs_complex_processing(buf, service, junk) = 1
    THEN [verdict |-> XDP_REDIRECT, sm |-> sm1, rlm |-> rl.map, cm |-> cm1,
          st |-> Inc(st0, "redirected_go"), note |-> n2 \cup {"complex"}]
    ELSE [verdict |-> XDP_PASS, sm |-> sm1, rlm |-> rl.map, cm |-> cm1,
          st |-> Inc(st0, "passed_packets"), note |-> n2 \cup {"fast"}]

\* process_packet that also records the packet length in the service's
\* bandwidth_limit
process_packet_writes_bandwidth_limit(buf, t, junk, sm, rlm, cm, atm, st) ==
    LET st0 == [st EXCEPT !.total_packets = @ + 1, !.last_update = t]
        h == er_parse(buf)
        service_key == er_find_service(sm, 1, h.dst_ip, h.dst_port, h.protocol)
        service == sm[service_key]
        sm1 == [sm EXCEPT ![service_key] =
                   [@ EXCEPT !.packet_count = @ + 1,
                             !.byte_count = @ + Len(buf),
                             !.last_activity = t,
                             !.bandwidth_limit = Len(buf)]]
        limited == service.rate_limit_pps > 0
        rl == IF limited
              THEN check_rate_limit(h.src_ip, service.rate_limit_pps, t, rlm)
              ELSE [ret |-> 1, map |-> rlm]
        cm1 == update_connection_tracking(h.src_ip, h.dst_ip, h.src_port,
                   h.dst_port, h.protocol, service_key, Len(buf), t, cm)
        simple == service.auth_type = AUTH_SIMPLE
        auth == IF simple
                THEN check_authentication(buf, service_key, t, atm, junk)
                ELSE 1
        n1 == IF limited THEN {"service", "rate_limit"} ELSE {"service"}
        n2 == (n1 \cup {"conntrack"}) \cup (IF simple THEN {"auth"} ELSE {})
    IN
    IF h.out = "drop_invalid"
    THEN [verdict |-> XDP_DROP, sm |-> sm, rlm |-> rlm, cm |-> cm,
          st |-> Inc(Inc(st0, "dropped_packets"), "invalid_packets"),
          note |-> {"drop_invalid"}]
    ELSE IF h.out = "pass_simple"
    THEN [verdict |-> XDP_PASS, sm |-> sm, rlm |-> rlm, cm |-> cm,
          st |-> Inc(st0, "passed_packets"), note |-> {"pass_simple"}]
    ELSE IF service_key = 0
    THEN [verdict |-> XDP_PASS, sm |-> sm, rlm |-> rlm, cm |-> cm,
          st |-> Inc(st0, "passed_packets"), note |-> {"pass_simple", "no_service"}]
    ELSE IF rl.ret = 0
    THEN [verdict |-> XDP_DROP, sm |-> sm1, rlm |-> rl.map, cm |-> cm,
          st |-> Inc(Inc(st0, "rate_limited"), "dropped_packets"),
          note |-> n1 \cup {"drop_rate_limited"}]
    ELSE IF auth = 0
    THEN [verdict |-> XDP_DROP, sm |-> sm1, rlm |-> rl.map, cm |-> cm1,
          st |-> Inc(Inc(st0, "auth_failures"), "dropped_packets"),
          note |-> n2 \cup {"drop_auth_failure"}]
    ELSE IF needs_complex_processing(buf, service, junk) = 1
    THEN [verdict |-> XDP_REDIRECT, sm |-> sm1, rlm |-> rl.map, cm |-> cm1,
          st |-> Inc(st0, "redirected_go"), note |-> n2 \cup {"complex"}]
    ELSE [verdict |-> XDP_PASS, sm |-> sm1, rlm |-> rl.map, cm |-> cm1,
          st |-> Inc(st0, "passed_packets"), note |-> n2 \cup {"fast"}]

\* returns the verdict and the maps as the packet leaves them; note lists
\* the stages that ran
process_packet(buf, t, junk, sm, rlm, cm, atm, st) ==
    LET st0 == [st EXCEPT !.total_packets = @ + 1, !.last_update = t]
        h == er_parse(buf)
        service_key == er_find_service(sm, 1, h.dst_ip, h.dst_port, h.protocol)
        service == sm[service_key]
        sm1 == [sm EXCEPT ![service_key] =
                   [@ EXCEPT !.packet_count = @ + 1,
                             !.byte_count = @ + Len(buf),
                             !.last_activity = t]]
        limited == service.rate_limit_pps > 0
        rl == IF limited
              THEN check_rate_limit(h.src_ip, service.rate_limit_pps, t, rlm)
              ELSE [ret |-> 1, map |-> rlm]
        cm1 == update_connection_tracking(h.src_ip, h.dst_ip, h.src_port,
                   h.dst_port, h.protocol, service_key, Len(buf), t, cm)
        simple == service.auth_type = AUTH_SIMPLE
        auth == IF simple
                THEN check_authentication(buf, service_key, t, atm, junk)
                ELSE 1
        n1 == IF limited THEN {"service", "rate_limit"} ELSE {"service"}
        n2 == (n1 \cup {"conntrack"}) \cup (IF simple THEN {"auth"} ELSE {})
    IN
    IF h.out = "drop_invalid"
    THEN [verdict |-> XDP_DROP, sm |-> sm, rlm |-> rlm, cm |-> cm,
          st |-> Inc(Inc(st0, "dropped_packets"), "invalid_packets"),
          note |-> {"drop_invalid"}]
    ELSE IF h.out = "pass_simple"
    THEN [verdict |-> XDP_PASS, sm |-> sm, rlm |-> rlm, cm |-> cm,
          st |-> Inc(st0, "passed_packets"), note |-> {"pass_simple"}]
    ELSE IF service_key = 0
    THEN [verdict |-> XDP_PASS, sm |-> sm, rlm |-> rlm, cm |-> cm,
          st |-> Inc(st0, "passed_packets"), note |-> {"pass_simple", "no_service"}]
    ELSE IF rl.ret = 0
    THEN [verdict |-> XDP_DROP, sm |-> sm1, rlm |-> rl.map, cm |-> cm,
          st |-> Inc(Inc(st0, "rate_limited"), "dropped_packets"),
          note |-> n1 \cup {"drop_rate_limited"}]
    ELSE IF auth = 0
    THEN [verdict |-> XDP_DROP, sm |-> sm1, rlm |-> rl.map, cm |-> cm1,
          st |-> Inc(Inc(st0, "auth_failures"), "dropped_packets"),
          note |-> n2 \cup {"drop_auth_failure"}]
    ELSE IF needs_complex_processing(buf, service, junk) = 1
    THEN [verdict |-> XDP_REDIRECT, sm |-> sm1, rlm |-> rl.map, cm |-> cm1,
          st |-> Inc(st0, "redirected_go"), note |-> n2 \cup {"complex"}]
    ELSE [verdict |-> XDP_PASS, sm |-> sm1, rlm |-> rl.map, cm |-> cm1,
          st |-> Inc(st0, "passed_packets"), note |-> n2 \cup {"fast"}]


---------------------------------------------------------------------------
(* xdp_filter.c *)

\* the key is <<limb 3, limb 2, limb 1, limb 0>> of the __u64
calc_connection_hash(src_ip, dst_ip, src_port, dst_port, protocol) ==
    <<src_ip[1], src_ip[2], Or(dst_ip[1], src_port),
      Or(Or(dst_ip[2], dst_port), protocol)>>

\* the key of service_rules for a destination: (ip & 0xFFFFFF00) | protocol
xf_service_key(ip, protocol) == <<ip[1], Or(ip[2] - (ip[2] % 256), protocol)>>

\* <<rule>> when the key is present, <<>> for a NULL result
lookup_service(sr, ip, port, protocol) ==
    IF xf_service_key(ip, protocol) \in DOMAIN sr
    THEN <<sr[xf_service_key(ip, protocol)]>>
    ELSE <<>>

xf_update_connection_tracking(src_ip, dst_ip, src_port, dst_port, protocol, timestamp, ct) ==
    LET hash == calc_connection_hash(src_ip, dst_ip, src_port, dst_port, protocol)
    IN  IF hash \in DOMAIN ct.tab
        THEN LET m == lru_lookup(ct, hash)
             IN  [m EXCEPT !.tab[hash] =
                     [@ EXCEPT !.packets = @ + 1, !.timestamp = timestamp]]
        ELSE lru_update(ct, hash,
                 [src_ip |-> src_ip, dst_ip |-> dst_ip, src_port |-> src_port,
                  dst_port |-> dst_port, protocol |-> protocol, state |-> 0,
                  timestamp |-> timestamp, packets |-> 1, bytes |-> 0], ConnCap)

XfHdr(out, buf, sp, dp) ==
    [out |-> out,
     src_ip |-> bpf_ntohl(LoadU32(buf, ETH_HLEN + 12, 0)),
     dst_ip |-> bpf_ntohl(LoadU32(buf, ETH_HLEN + 16, 0)),
     protocol |-> Rd(buf, ETH_HLEN + 9, 0),
     src_port |-> sp, dst_port |-> dp]

\* xf_parse with the protocols it does not know treated as malformed
xf_parse_drops_other(buf) ==
    IF past_end(buf, ETH_HLEN) THEN XfHdr("malformed", buf, 0, 0)
    ELSE IF bpf_ntohs(LoadU16(buf, 12, 0)) # ETH_P_IP THEN XfHdr("other", buf, 0, 0)
    ELSE IF past_end(buf, ETH_HLEN + IP_HLEN) THEN XfHdr("malformed", buf, 0, 0)
    ELSE IF Rd(buf, ETH_HLEN, 0) % 16 < 5 THEN XfHdr("malformed", buf, 0, 0)
    ELSE
        LET protocol == Rd(buf, ETH_HLEN + 9, 0)
            th == ETH_HLEN + (Rd(buf, ETH_HLEN, 0) % 16) * 4
        IN  IF protocol = PROTO_TCP
            THEN IF past_end(buf, th + TCP_HLEN)
                 THEN XfHdr("malformed", buf, 0, 0)
                 ELSE XfHdr("tcp", buf, bpf_ntohs(LoadU16(buf, th, 0)),
                            bpf_ntohs(LoadU16(buf, th + 2, 0)))
            ELSE IF protocol = PROTO_UDP
            THEN IF past_end(buf, th + UDP_HLEN)
                 THEN XfHdr("malformed", buf, 0, 0)
                 ELSE XfHdr("udp", buf, bpf_ntohs(LoadU16(buf, th, 0)),
                            bpf_ntohs(LoadU16(buf, th + 2, 0)))
            ELSE XfHdr("malformed", buf, 0, 0)

\* the header parsing of xdp_marchproxy_filter: out is "malformed",
\* "other" (passed unclassified), "tcp" or "udp"
xf_parse(buf) ==
    IF past_end(buf, ETH_HLEN) THEN XfHdr("malformed", buf, 0, 0)
    ELSE IF bpf_ntohs(LoadU16(buf, 12, 0)) # ETH_P_IP THEN XfHdr("other", buf, 0, 0)
    ELSE IF past_end(buf, ETH_HLEN + IP_HLEN) THEN XfHdr("malformed", buf, 0, 0)
    ELSE IF Rd(buf, ETH_HLEN, 0) % 16 < 5 THEN XfHdr("malformed", buf, 0, 0)
    ELSE
        LET protocol == Rd(buf, ETH_HLEN + 9, 0)
            th == ETH_HLEN + (Rd(buf, ETH_HLEN, 0) % 16) * 4
        IN  IF protocol = PROTO_TCP
            THEN IF past_end(buf, th + TCP_HLEN)
                 THEN XfHdr("malformed", buf, 0, 0)
                 ELSE XfHdr("tcp", buf, bpf_ntohs(LoadU16(buf, th, 0)),
                            bpf_ntohs(LoadU16(buf, th + 2, 0)))
            ELSE IF protocol = PROTO_UDP
            THEN IF past_end(buf, th + UDP_HLEN)
                 THEN XfHdr("malformed", buf, 0, 0)
                 ELSE XfHdr("udp", buf, bpf_ntohs(LoadU16(buf, th, 0)),
                            bpf_ntohs(LoadU16(buf, th + 2, 0)))
            ELSE XfHdr("other", buf, 0, 0)

xdp_marchproxy_filter(buf, t, sr, ct, st) ==
    LET st0 == Inc(st, "total_packets")
        h == xf_parse(buf)
        st1 == Inc(st0, IF h.out = "tcp" THEN "tcp_packets" ELSE "udp_packets")
        ct1 == xf_update_connection_tracking(h.src_ip, h.dst_ip, h.src_port,
                   h.dst_port, h.protocol, t, ct)
        rule == lookup_service(sr, h.dst_ip, h.dst_port, h.protocol)
    IN
    IF h.out = "malformed"
    THEN [verdict |-> XDP_DROP, ct |-> ct, st |-> Inc(st0, "malformed_packets"),
          note |-> {"malformed"}]
    ELSE IF h.out = "other"
    THEN [verdict |-> XDP_PASS, ct |-> ct, st |-> Inc(st0, "other_packets"),
          note |-> {"other"}]
    ELSE IF rule = <<>>
    THEN [verdict |-> XDP_PASS, ct |-> ct1, st |-> Inc(st1, "passed_packets"),
          note |-> {"conntrack", "no_rule"}]
    ELSE IF rule[1].action = 0
    THEN [verdict |-> XDP_DROP, ct |-> ct1, st |-> Inc(st1, "dropped_packets"),
          note |-> {"conntrack", "rule_drop"}]
    ELSE IF rule[1].action = 2
    THEN [verdict |-> XDP_PASS, ct |-> ct1, st |-> Inc(st1, "redirected_packets"),
          note |-> {"conntrack", "rule_redirect"}]
    ELSE [verdict |-> XDP_PASS, ct |-> ct1, st |-> Inc(st1, "passed_packets"),
          note |-> {"conntrack", "rule_pass"}]

---------------------------------------------------------------------------
(* rule_matcher.bpf.c *)

\* the header parsing of rule_matcher_xdp: the transport header is read
\* right after the fixed IP header; the port stays in network byte order
rm_parse(buf) ==
    LET hdr(out, dp) == [out |-> out, protocol |-> Rd(buf, ETH_HLEN + 9, 0),
                         dst_ip |-> LoadU32(buf, ETH_HLEN + 16, 0), dst_port |-> dp]
        protocol == Rd(buf, ETH_HLEN + 9, 0)
        th == ETH_HLEN + IP_HLEN
    IN
    IF ETH_HLEN > Len(buf) THEN hdr("drop", 0)
    ELSE IF LoadU16(buf, 12, 0) # bpf_htons(ETH_P_IP) THEN hdr("pass", 0)
    ELSE IF ETH_HLEN + IP_HLEN > Len(buf) THEN hdr("drop", 0)
    ELSE IF protocol = PROTO_TCP
    THEN IF th + TCP_HLEN > Len(buf) THEN hdr("drop", 0)
         ELSE hdr("tcp", LoadU16(buf, th + 2, 0))
    ELSE IF protocol = PROTO_UDP
    THEN IF th + UDP_HLEN > Len(buf) THEN hdr("drop", 0)
         ELSE hdr("udp", LoadU16(buf, th + 2, 0))
    ELSE IF protocol = PROTO_ICMP
    THEN IF th + ICMP_HLEN > Len(buf) THEN hdr("drop", 0)
         ELSE hdr("icmp", bpf_htons(Rd(buf, th, 0) * 256 + Rd(buf, th + 1, 0)))
    ELSE hdr("pass", 0)

\* the scan of service_rules from rule_id on: the first rule that matches,
\* 0 when the scan ends without a match
RECURSIVE rm_find_rule(_, _, _, _, _)
rm_find_rule(sr, rule_id, protocol, dst_ip, dst_port) ==
    IF rule_id > RuleSlots THEN 0
    ELSE IF /\ rule_id \in DOMAIN sr
            /\ sr[rule_id].protocol = protocol
            /\ sr[rule_id].ip_addr = dst_ip
            /\ sr[rule_id].port = dst_port
         THEN rule_id
         ELSE rm_find_rule(sr, rule_id + 1, protocol, dst_ip, dst_port)

rule_matcher_xdp(buf, sr, st) ==
    LET st0 == Inc(st, "total_packets")
        h == rm_parse(buf)
        st1 == IF h.out = "tcp" THEN Inc(st0, "tcp_packets")
               ELSE IF h.out = "udp" THEN Inc(st0, "udp_packets")
               ELSE st0
        rule_id == rm_find_rule(sr, 1, h.protocol, h.dst_ip, h.dst_port)
    IN
    IF h.out = "drop"
    THEN [verdict |-> XDP_DROP, st |-> st0, note |-> {"malformed"}]
    ELSE IF h.out = "pass"
    THEN [verdict |-> XDP_PASS, st |-> st0, note |-> {"other"}]
    ELSE IF rule_id = 0
    THEN [verdict |-> XDP_PASS, st |-> st1, note |-> {"no_rule"}]
    ELSE IF sr[rule_id].action = 0
    THEN [verdict |-> XDP_DROP, st |-> Inc(st1, "dropped_packets"),
          note |-> {"rule_drop"}]
    ELSE IF sr[rule_id].action = 1
    THEN [verdict |-> XDP_PASS, st |-> Inc(st1, "allowed_packets"),
          note |-> {"rule_allow"}]
    ELSE IF sr[rule_id].action = 2
    THEN [verdict |-> XDP_PASS, st |-> Inc(st1, "userspace_packets"),
          note |-> {"rule_userspace"}]
    ELSE [verdict |-> XDP_PASS, st |-> st1, note |-> {"rule_other"}]

---------------------------------------------------------------------------
(* rate_limit.c *)

\* 0 with the addresses, -1 when the frame is not a complete IPv4 header
parse_ipv4(buf) ==
    IF ETH_HLEN > Len(buf) THEN [ret |-> -1, src_ip |-> <<0, 0>>]
    ELSE IF LoadU16(buf, 12, 0) # bpf_htons(ETH_P_IP)
    THEN [ret |-> -1, src_ip |-> <<0, 0>>]
    ELSE IF ETH_HLEN + IP_HLEN > Len(buf) THEN [ret |-> -1, src_ip |-> <<0, 0>>]
    ELSE [ret |-> 0, src_ip |-> LoadU32(buf, ETH_HLEN + 12, 0)]

\* a window that restarts after any elapsed time, whatever its size
ip_window_any_elapsed(config, state, now_ns) ==
    IF now_ns - state.last_update_ns > 0
    THEN [state EXCEPT !.last_update_ns = now_ns,
                       !.packet_count = 1,
                       !.burst_tokens = config.burst_allowance]
    ELSE [state EXCEPT !.packet_count = @ + 1]

\* a window restart that leaves the burst tokens as they were
ip_window_keeps_burst(config, state, now_ns) ==
    IF now_ns - state.last_update_ns >= config.window_size_ns
    THEN [state EXCEPT !.last_update_ns = now_ns, !.packet_count = 1]
    ELSE [state EXCEPT !.packet_count = @ + 1]

\* the window of an existing entry: restarted when it has elapsed
\* ip_window with every packet inside the window restarting the window
ip_window_restarted_by_packets(config, state, now_ns) ==
    IF now_ns - state.last_update_ns >= config.window_size_ns
    THEN [state EXCEPT !.last_update_ns = now_ns,
                       !.packet_count = 1,
                       !.burst_tokens = config.burst_allowance]
    ELSE [state EXCEPT !.packet_count = @ + 1, !.last_update_ns = now_ns]

ip_window(config, state, now_ns) ==
    IF now_ns - state.last_update_ns >= config.window_size_ns
    THEN [state EXCEPT !.last_update_ns = now_ns,
                       !.packet_count = 1,
                       !.burst_tokens = config.burst_allowance]
    ELSE [state EXCEPT !.packet_count = @ + 1]

\* returns [action, map]
check_ip_rate_limit(config, src_ip, now_ns, ipm) ==
    IF src_ip \notin DOMAIN ipm
    THEN [action |-> XDP_PASS,
          map |-> (src_ip :> [last_update_ns |-> now_ns, packet_count |-> 1,
                              total_packets |-> 1, dropped_packets |-> 0,
                              burst_tokens |-> config.burst_allowance]) @@ ipm]
    ELSE
        LET state == ipm[src_ip]
            s1 == ip_window(config, state, now_ns)
            s2 == [s1 EXCEPT !.total_packets = @ + 1]
        IN  IF s2.packet_count > config.per_ip_pps_limit
            THEN IF s2.burst_tokens > 0
                 THEN [action |-> XDP_PASS,
                       map |-> [ipm EXCEPT ![src_ip] =
                                  [s2 EXCEPT !.burst_tokens = @ - 1]]]
                 ELSE [action |-> XDP_DROP,
                       map |-> [ipm EXCEPT ![src_ip] =
                                  [s2 EXCEPT !.dropped_packets = @ + 1]]]
            ELSE [action |-> XDP_PASS, map |-> [ipm EXCEPT ![src_ip] = s2]]

\* returns [action, state]; global_rate_state_map is an array map of one
\* entry: the lookup always finds the (zero-initialised) entry, and the
\* branch for a missing entry never runs
check_global_rate_limit(config, now_ns, state) ==
        LET elapsed_ns == now_ns - state.last_update_ns
            s1 == IF elapsed_ns >= config.window_size_ns
                  THEN [state EXCEPT !.last_update_ns = now_ns, !.packet_count = 1]
                  ELSE [state EXCEPT !.packet_count = @ + 1]
            s2 == [s1 EXCEPT !.total_packets = @ + 1]
        IN  IF s2.packet_count > config.global_pps_limit
            THEN [action |-> XDP_DROP,
                  state |-> [s2 EXCEPT !.dropped_packets = @ + 1]]
            ELSE [action |-> XDP_PASS, state |-> s2]

\* update_stats without the per-source cause counter
rl_update_stats_global_cause_only(stats, action, global_drop, ip_drop) ==
    LET s1 == Inc(stats, "total_packets")
    IN  IF action = XDP_DROP
        THEN LET s2 == Inc(s1, "dropped_packets")
             IN  IF global_drop THEN Inc(s2, "global_drops") ELSE s2
        ELSE Inc(s1, "passed_packets")

rl_update_stats(stats, action, global_drop, ip_drop) ==
    LET s1 == Inc(stats, "total_packets")
    IN  IF action = XDP_DROP
        THEN LET s2 == Inc(s1, "dropped_packets")
                 s3 == IF global_drop THEN Inc(s2, "global_drops") ELSE s2
             IN  IF ip_drop THEN Inc(s3, "per_ip_drops") ELSE s3
        ELSE Inc(s1, "passed_packets")

\* the same with the per-source check run before the global verdict is
\* looked at
xdp_rate_limiter_no_short_circuit(buf, now_ns, license, config, gst, ipm, stats) ==
    LET h == parse_ipv4(buf)
        untouched == [action |-> XDP_PASS, gst |-> gst, ipm |-> ipm,
                      stats |-> stats, note |-> {}]
        global == config.global_pps_limit > 0
        g == IF global THEN check_global_rate_limit(config, now_ns, gst)
             ELSE [action |-> XDP_PASS, state |-> gst]
        per_ip == config.per_ip_pps_limit > 0
        i == IF per_ip THEN check_ip_rate_limit(config, h.src_ip, now_ns, ipm)
             ELSE [action |-> g.action, map |-> ipm]
        ng == IF global THEN {"global"} ELSE {}
        ni == IF per_ip THEN {"ip"} ELSE {}
    IN
    IF license = 0 THEN untouched
    ELSE IF config.enabled = 0 THEN untouched
    ELSE IF h.ret < 0 THEN untouched
    ELSE IF g.action = XDP_DROP
    THEN [action |-> XDP_DROP, gst |-> g.state, ipm |-> i.map,
          stats |-> rl_update_stats(stats, XDP_DROP, TRUE, FALSE),
          note |-> ng \cup {"global_drop"}]
    ELSE [action |-> i.action, gst |-> g.state, ipm |-> i.map,
          stats |-> rl_update_stats(stats, i.action, FALSE, i.action = XDP_DROP),
          note |-> (ng \cup ni)
                   \cup (IF i.action = XDP_DROP THEN {"ip_drop"} ELSE {})]

\* the same with the global check run whatever global_pps_limit is
xdp_rate_limiter_checks_disabled_scope(buf, now_ns, license, config, gst, ipm, stats) ==
    LET h == parse_ipv4(buf)
        untouched == [action |-> XDP_PASS, gst |-> gst, ipm |-> ipm,
                      stats |-> stats, note |-> {}]
        global == TRUE
        g == IF global THEN check_global_rate_limit(config, now_ns, gst)
             ELSE [action |-> XDP_PASS, state |-> gst]
        per_ip == config.per_ip_pps_limit > 0
        i == IF per_ip THEN check_ip_rate_limit(config, h.src_ip, now_ns, ipm)
             ELSE [action |-> g.action, map |-> ipm]
        ng == IF global THEN {"global"} ELSE {}
        ni == IF per_ip THEN {"ip"} ELSE {}
    IN
    IF license = 0 THEN untouched
    ELSE IF config.enabled = 0 THEN untouched
    ELSE IF h.ret < 0 THEN untouched
    ELSE IF g.action = XDP_DROP
    THEN [action |-> XDP_DROP, gst |-> g.state, ipm |-> ipm,
          stats |-> rl_update_stats(stats, XDP_DROP, TRUE, FALSE),
          note |-> ng \cup {"global_drop"}]
    ELSE [action |-> i.action, gst |-> g.state, ipm |-> i.map,
          stats |-> rl_update_stats(stats, i.action, FALSE, i.action = XDP_DROP),
          note |-> (ng \cup ni)
                   \cup (IF i.action = XDP_DROP THEN {"ip_drop"} ELSE {})]

\* the same without the test of config->enabled
xdp_rate_limiter_ignores_enabled(buf, now_ns, license, config, gst, ipm, stats) ==
    LET h == parse_ipv4(buf)
        untouched == [action |-> XDP_PASS, gst |-> gst, ipm |-> ipm,
                      stats |-> stats, note |-> {}]
        global == config.global_pps_limit > 0
        g == IF global THEN check_global_rate_limit(config, now_ns, gst)
             ELSE [action |-> XDP_PASS, state |-> gst]
        per_ip == config.per_ip_pps_limit > 0
        i == IF per_ip THEN check_ip_rate_limit(config, h.src_ip, now_ns, ipm)
             ELSE [action |-> g.action, map |-> ipm]
        ng == IF global THEN {"global"} ELSE {}
        ni == IF per_ip THEN {"ip"} ELSE {}
    IN
    IF license = 0 THEN untouched
    ELSE IF h.ret < 0 THEN untouched
    ELSE IF g.action = XDP_DROP
    THEN [action |-> XDP_DROP, gst |-> g.state, ipm |-> ipm,
          stats |-> rl_update_stats(stats, XDP_DROP, TRUE, FALSE),
          note |-> ng \cup {"global_drop"}]
    ELSE [action |-> i.action, gst |-> g.state, ipm |-> i.map,
          stats |-> rl_update_stats(stats, i.action, FALSE, i.action = XDP_DROP),
          note |-> (ng \cup ni)
                   \cup (IF i.action = XDP_DROP THEN {"ip_drop"} ELSE {})]
\* returns the verdict and the maps as the packet leaves them; note lists
\* the maps the packet's processing accessed and the cause of a drop
xdp_rate_limiter(buf, now_ns, license, config, gst, ipm, stats) ==
    LET h == parse_ipv4(buf)
        untouched == [action |-> XDP_PASS, gst |-> gst, ipm |-> ipm,
                      stats |-> stats, note |-> {}]
        global == config.global_pps_limit > 0
        g == IF global THEN check_global_rate_limit(config, now_ns, gst)
             ELSE [action |-> XDP_PASS, state |-> gst]
        per_ip == config.per_ip_pps_limit > 0
        i == IF per_ip THEN check_ip_rate_limit(config, h.src_ip, now_ns, ipm)
             ELSE [action |-> g.action, map |-> ipm]
        ng == IF global THEN {"global"} ELSE {}
        ni == IF per_ip THEN {"ip"} ELSE {}
    IN
    IF license = 0 THEN untouched
    ELSE IF config.enabled = 0 THEN untouched
    ELSE IF h.ret < 0 THEN untouched
    ELSE IF g.action = XDP_DROP
    THEN [action |-> XDP_DROP, gst |-> g.state, ipm |-> ipm,
          stats |-> rl_update_stats(stats, XDP_DROP, TRUE, FALSE),
          note |-> ng \cup {"global_drop"}]
    ELSE [action |-> i.action, gst |-> g.state, ipm |-> i.map,
          stats |-> rl_update_stats(stats, i.action, FALSE, i.action = XDP_DROP),
          note |-> (ng \cup ni)
                   \cup (IF i.action = XDP_DROP THEN {"ip_drop"} ELSE {})]

---------------------------------------------------------------------------
(* marchproxy.c *)

\* -1 when the Ethernet header does not fit, else its length
parse_eth_hdr(buf) == IF past_end(buf, ETH_HLEN) THEN -1 ELSE ETH_HLEN

\* -1 when the fixed IPv4 header does not fit, the version is not 4 or the
\* IHL is below 5, else the header length the IHL declares
parse_ip_hdr(buf, offset) ==
    IF past_end(buf, offset + IP_HLEN) THEN -1
    ELSE IF Rd(buf, offset, 0) \div 16 # 4 THEN -1
    ELSE IF Rd(buf, offset, 0) % 16 < 5 THEN -1
    ELSE (Rd(buf, offset, 0) % 16) * 4

\* mapping->protocols & proto_mask, for proto_mask 0 or one bit
proto_bit(protocols, proto_mask) ==
    IF proto_mask = 0 THEN 0
    ELSE ((protocols \div proto_mask) % 2) * proto_mask

\* the scan of mapping->ports from index i on
RECURSIVE port_matched(_, _, _)
port_matched(mapping, dst_port, i) ==
    IF ~(i < mapping.port_count /\ i < MAX_PORTS) THEN FALSE
    ELSE IF mapping.ports[i + 1] = dst_port THEN TRUE
    ELSE port_matched(mapping, dst_port, i + 1)

\* the scan of mappings_map from id map_id on: the first id whose mapping
\* allows the protocol and the port, 0 (NULL) when the scan ends
RECURSIVE find_mapping(_, _, _, _)
find_mapping(mm, map_id, dst_port, protocol) ==
    LET proto_mask == IF protocol = PROTO_TCP THEN 1
                      ELSE IF protocol = PROTO_UDP THEN 2
                      ELSE IF protocol = PROTO_ICMP THEN 4
                      ELSE 0
    IN  IF map_id > MappingSlots THEN 0
        ELSE IF /\ map_id \in DOMAIN mm
                /\ proto_bit(mm[map_id].protocols, proto_mask) # 0
                /\ port_matched(mm[map_id], dst_port, 0)
             THEN map_id
             ELSE find_mapping(mm, map_id + 1, dst_port, protocol)

\* the id of the destination service of the mapping, 0 (NULL) when the
\* mapping names none or services_map does not hold it
find_dest_service(mapping, sm) ==
    IF mapping.dest_count = 0 THEN 0
    ELSE IF mapping.dest_services[1] \in DOMAIN sm THEN mapping.dest_services[1]
    ELSE 0

\* action: 0 dropped, 1 forwarded, 2 fallback
mp_update_stats(stats, bytes, protocol, action) ==
    LET s1 == [stats EXCEPT !.total_packets = @ + 1, !.total_bytes = @ + bytes]
        s2 == IF protocol = PROTO_TCP THEN Inc(s1, "tcp_packets")
              ELSE IF protocol = PROTO_UDP THEN Inc(s1, "udp_packets")
              ELSE IF protocol = PROTO_ICMP THEN Inc(s1, "icmp_packets")
              ELSE s1
    IN  IF action = 0 THEN Inc(s2, "dropped_packets")
        ELSE IF action = 1 THEN Inc(s2, "forwarded_packets")
        ELSE IF action = 2 THEN Inc(s2, "fallback_to_userspace")
        ELSE s2

\* connections_map is a BPF_MAP_TYPE_HASH: an existing entry is updated in
\* place, a new key is inserted unless the map is full
mp_track_connection(cm, key, len, t, service_id) ==
    IF key \in DOMAIN cm
    THEN [cm EXCEPT ![key] = [@ EXCEPT !.packets = @ + 1, !.bytes = @ + len,
                                       !.timestamp = t]]
    ELSE IF Cardinality(DOMAIN cm) >= ConnCap THEN cm
    ELSE (key :> [packets |-> 1, bytes |-> len, timestamp |-> t,
                  service_id |-> service_id, authenticated |-> 0]) @@ cm

\* returns the verdict and the maps as the packet leaves them
marchproxy_ingress(buf, t, mm, sm, cm, st) ==
    LET eth_hdr_len == parse_eth_hdr(buf)
        ip_hdr_len == parse_ip_hdr(buf, eth_hdr_len)
        src_ip == LoadU32(buf, ETH_HLEN + 12, 0)
        dst_ip == LoadU32(buf, ETH_HLEN + 16, 0)
        protocol == Rd(buf, ETH_HLEN + 9, 0)
        th == eth_hdr_len + ip_hdr_len
        cut == \/ protocol = PROTO_TCP /\ past_end(buf, th + TCP_HLEN)
               \/ protocol = PROTO_UDP /\ past_end(buf, th + UDP_HLEN)
        ports == protocol \in {PROTO_TCP, PROTO_UDP}
        src_port == IF ports THEN bpf_ntohs(LoadU16(buf, th, 0)) ELSE 0
        dst_port == IF ports THEN bpf_ntohs(LoadU16(buf, th + 2, 0)) ELSE 0
        mapping == find_mapping(mm, 1, dst_port, protocol)
        dest_service == find_dest_service(mm[mapping], sm)
        conn_key == <<src_ip, dst_ip, src_port, dst_port, protocol>>
    IN
    IF eth_hdr_len < 0 \/ bpf_ntohs(LoadU16(buf, 12, 0)) # ETH_P_IP
    THEN [verdict |-> TC_ACT_OK, cm |-> cm, st |-> st, note |-> {"non_ip"}]
    ELSE IF ip_hdr_len < 0
    THEN [verdict |-> TC_ACT_OK, cm |-> cm, st |-> st, note |-> {"malformed_ip"}]
    ELSE IF cut
    THEN [verdict |-> TC_ACT_OK, cm |-> cm, st |-> st, note |-> {"cut"}]
    ELSE IF mapping = 0
    THEN [verdict |-> TC_ACT_SHOT, cm |-> cm,
          st |-> mp_update_stats(st, Len(buf), protocol, 0),
          note |-> {"no_mapping"}]
    ELSE IF dest_service = 0
    THEN [verdict |-> TC_ACT_SHOT, cm |-> cm,
          st |-> mp_update_stats(st, Len(buf), protocol, 0),
          note |-> {"mapping", "no_dest_service"}]
    ELSE IF mm[mapping].auth_required # 0 \/ sm[dest_service].auth_required # 0
    THEN [verdict |-> TC_ACT_OK, cm |-> cm,
          st |-> mp_update_stats(st, Len(buf), protocol, 2),
          note |-> {"mapping", "fallback"}]
    ELSE [verdict |-> TC_ACT_OK,
          cm |-> mp_track_connection(cm, conn_key, Len(buf), t, sm[dest_service].id),
          st |-> mp_update_stats(st, Len(buf), protocol, 1),
          note |-> {"mapping", "forwarded"}]

---------------------------------------------------------------------------
(* envoy_xdp.c *)

\* 1 when the payload starts with one of the HTTP methods
detect_http(buf, payload) ==
    IF payload + 4 > Len(buf) THEN 0
    ELSE IF <<Rd(buf, payload, 0), Rd(buf, payload + 1, 0),
              Rd(buf, payload + 2, 0), Rd(buf, payload + 3, 0)>>
            \in {<<71, 69, 84, 32>>, <<80, 79, 83, 84>>, <<80, 85, 84, 32>>,
                 <<68, 69, 76, 69>>, <<72, 69, 65, 68>>, <<79, 80, 84, 73>>,
                 <<80, 65, 84, 67>>}
    THEN 1
    ELSE 0

\* detect_tls without the test of the minor version
detect_tls_any_version(buf, payload) ==
    IF payload + 3 > Len(buf) THEN 0
    ELSE IF /\ Rd(buf, payload, 0) \in {22, 23}
            /\ Rd(buf, payload + 1, 0) = 3
    THEN 1
    ELSE 0

\* 1 when the payload starts with a TLS record header
detect_tls(buf, payload) ==
    IF payload + 3 > Len(buf) THEN 0
    ELSE IF /\ Rd(buf, payload, 0) \in {22, 23}
            /\ Rd(buf, payload + 1, 0) = 3
            /\ Rd(buf, payload + 2, 0) >= 1 /\ Rd(buf, payload + 2, 0) <= 4
    THEN 1
    ELSE 0

\* 1 for the connection preface "PRI " or a SETTINGS frame (type 4)
detect_http2(buf, payload) ==
    IF payload + 9 > Len(buf) THEN 0
    ELSE IF <<Rd(buf, payload, 0), Rd(buf, payload + 1, 0),
              Rd(buf, payload + 2, 0), Rd(buf, payload + 3, 0)>> = <<80, 82, 73, 32>>
    THEN 1
    ELSE IF Rd(buf, payload + 3, 0) = 4 THEN 1
    ELSE 0

\* check_rate_limit of envoy_xdp.c: the fixed window per source; returns the
\* action, rate_limit_map and the statistics
ev_check_rate_limit(config, src_ip, now_ns, rlm, st) ==
    IF config.enabled = 0 THEN [action |-> XDP_PASS, rlm |-> rlm, st |-> st]
    ELSE IF src_ip \notin DOMAIN rlm
    THEN [action |-> XDP_PASS,
          rlm |-> (src_ip :> [packet_count |-> 1, last_reset_ns |-> now_ns,
                              dropped_count |-> 0]) @@ rlm,
          st |-> st]
    ELSE IF now_ns - rlm[src_ip].last_reset_ns > config.window_ns
    THEN [action |-> XDP_PASS,
          rlm |-> [rlm EXCEPT ![src_ip] =
                     [@ EXCEPT !.packet_count = 1, !.last_reset_ns = now_ns]],
          st |-> st]
    ELSE IF rlm[src_ip].packet_count >= config.max_packets
    THEN [action |-> XDP_DROP,
          rlm |-> [rlm EXCEPT ![src_ip] = [@ EXCEPT !.dropped_count = @ + 1]],
          st |-> Inc(Inc(st, "rate_limited"), "dropped")]
    ELSE [action |-> XDP_PASS,
          rlm |-> [rlm EXCEPT ![src_ip] = [@ EXCEPT !.packet_count = @ + 1]],
          st |-> st]

\* returns the verdict and the maps as the packet leaves them; note lists
\* the stages that ran
xdp_envoy_filter(buf, now_ns, config, rlm, st) ==
    LET st0 == [st EXCEPT !.total_packets = @ + 1, !.total_bytes = @ + Len(buf)]
        rl == ev_check_rate_limit(config, LoadU32(buf, ETH_HLEN + 12, 0), now_ns,
                                  rlm, st0)
        tcp == ETH_HLEN + (Rd(buf, ETH_HLEN, 0) % 16) * 4
        payload == tcp + (Rd(buf, tcp + 12, 0) \div 16) * 4
        dest_port == bpf_ntohs(LoadU16(buf, tcp + 2, 0))
        web == dest_port = 80 \/ dest_port = 8080
        tls == dest_port = 443 \/ dest_port = 8443
        is_http == IF web THEN detect_http(buf, payload) ELSE 0
        is_https == IF ~web /\ tls THEN detect_tls(buf, payload) ELSE 0
        is_http2 == IF web THEN detect_http2(buf, payload)
                    ELSE IF ~tls /\ dest_port = 50051 THEN 1
                    ELSE 0
        is_grpc == IF ~web /\ ~tls /\ dest_port = 50051 THEN 1 ELSE 0
        st1 == [rl.st EXCEPT !.http_packets = @ + is_http,
                             !.https_packets = @ + is_https,
                             !.http2_packets = @ + is_http2,
                             !.grpc_packets = @ + is_grpc]
    IN
    IF past_end(buf, ETH_HLEN)
    THEN [verdict |-> XDP_DROP, rlm |-> rlm, st |-> st0, note |-> {"malformed"}]
    ELSE IF LoadU16(buf, 12, 0) # bpf_htons(ETH_P_IP)
    THEN [verdict |-> XDP_PASS, rlm |-> rlm, st |-> st0, note |-> {"other"}]
    ELSE IF past_end(buf, ETH_HLEN + IP_HLEN) \/ Rd(buf, ETH_HLEN, 0) % 16 < 5
    THEN [verdict |-> XDP_DROP, rlm |-> rlm, st |-> st0, note |-> {"malformed"}]
    ELSE IF rl.action = XDP_DROP
    THEN [verdict |-> XDP_DROP, rlm |-> rl.rlm, st |-> rl.st,
          note |-> {"rate_limit", "rate_limited"}]
    ELSE IF Rd(buf, ETH_HLEN + 9, 0) # PROTO_TCP
    THEN [verdict |-> XDP_PASS, rlm |-> rl.rlm, st |-> rl.st,
          note |-> {"rate_limit", "other"}]
    ELSE IF past_end(buf, tcp + TCP_HLEN)
    THEN [verdict |-> XDP_DROP, rlm |-> rl.rlm, st |-> rl.st,
          note |-> {"rate_limit", "malformed"}]
    ELSE IF payload >= Len(buf)
    THEN [verdict |-> XDP_PASS, rlm |-> rl.rlm, st |-> rl.st,
          note |-> {"rate_limit", "no_payload"}]
    ELSE [verdict |-> XDP_PASS, rlm |-> rl.rlm, st |-> st1,
          note |-> {"rate_limit", "detect"}]

---------------------------------------------------------------------------
(* xdp.c: the loader's side of the maps *)

\* update_service_rule_xdp that removes the entry when the key already
\* holds the rule
update_service_rule_xdp_toggles(m, key, rule) ==
    IF key \in DOMAIN m
    THEN IF m[key] = rule
         THEN [k \in DOMAIN m \ {key} |-> m[k]]
         ELSE [m EXCEPT ![key] = rule]
    ELSE IF Cardinality(DOMAIN m) < ServiceSlots THEN (key :> rule) @@ m
    ELSE m

\* bpf_map_update_elem(map_fd, &key, rule, BPF_ANY) on a hash map of
\* MAX_SERVICES entries: the table afterwards (unchanged when the call
\* fails because the map is full)
update_service_rule_xdp(m, key, rule) ==
    IF key \in DOMAIN m THEN [m EXCEPT ![key] = rule]
    ELSE IF Cardinality(DOMAIN m) < ServiceSlots THEN (key :> rule) @@ m
    ELSE m

---------------------------------------------------------------------------
(* The programs on several CPUs.  The map values are shared memory: a CPU  *)
(* holds the pointer bpf_map_lookup_elem returned and reads and writes the *)
(* fields through it.  A plain x++ is a load and a store, two steps;       *)
(* __sync_fetch_and_add is one step.  A test and the update that follows   *)
(* it use one load of the field.  The CPU keeps the header fields it       *)
(* parsed (h) and the packet length (len) in registers.                    *)

CPUs == 1 .. NCpus

CpuIdle ==
    [pc |-> "idle", p |-> 0, h |-> <<>>, len |-> 0, r |-> 0, add |-> 0, cnt |-> 0,
     action |-> NULL, global_drop |-> FALSE, ip_drop |-> FALSE]

\* the CPU returned from the program
CpuDone(c) == CpuIdle

SmpObs0 ==
    [started |-> 0, admitted |-> 0, tracked |-> 0, bytes |-> 0,
     global_admitted |-> 0, ip_admitted |-> 0, stat_calls |-> 0]

\* enhanced_rules.c, process_packet from the rate limit check to the end of
\* update_connection_tracking: the next statement of the CPU with registers
\* c at time t.  ev is what the statement completed: "admit" / "reject"
\* (check_rate_limit returned 1 / 0), "tracked" (update_connection_tracking
\* returned), "" otherwise.
er_smp_step(c, t, sm, rlm, cm) ==
    LET h == c.h
        service == sm[er_find_service(sm, 1, h.dst_ip, h.dst_port, h.protocol)]
        limit_pps == service.rate_limit_pps
        key == h.src_ip
        conn_hash == hash_connection(h.src_ip, h.dst_ip, h.src_port,
                                     h.dst_port, h.protocol)
        packet_len == c.len
        Rlm(f, v) == [rlm EXCEPT ![key][f] = v]
        Cm(f, v) == [cm EXCEPT !.tab[conn_hash][f] = v]
        At(pc, r) == [c EXCEPT !.pc = pc, !.r = r]
        Res(c1, rlm1, cm1, ev) == [c |-> c1, rlm |-> rlm1, cm |-> cm1, ev |-> ev]
    IN
    CASE c.pc = "crl_lookup" ->
            IF key \notin DOMAIN rlm
            THEN Res(At("uct_lookup", 0),
                     (key :> [key |-> key, last_update |-> t, packet_count |-> 1,
                              byte_count |-> 0, tokens |-> limit_pps - 1]) @@ rlm,
                     cm, "admit")
            ELSE Res(At("crl_time_diff", 0), rlm, cm, "")
      [] c.pc = "crl_time_diff" ->
            Res([c EXCEPT !.pc = "crl_ld_tokens",
                          !.add = TokensToAdd(t - rlm[key].last_update, limit_pps)],
                rlm, cm, "")
      [] c.pc = "crl_ld_tokens" ->
            IF c.add > 0
            THEN Res(At("crl_st_refill", rlm[key].tokens), rlm, cm, "")
            ELSE IF rlm[key].tokens > 0
            THEN Res(At("crl_st_dec", rlm[key].tokens), rlm, cm, "")
            ELSE Res(CpuDone(c), rlm, cm, "reject")
      [] c.pc = "crl_st_refill" ->
            Res(At(IF c.r + c.add > limit_pps THEN "crl_st_cap" ELSE "crl_st_last",
                   c.r + c.add),
                Rlm("tokens", c.r + c.add), cm, "")
      [] c.pc = "crl_st_cap" ->
            Res(At("crl_st_last", limit_pps), Rlm("tokens", limit_pps), cm, "")
      [] c.pc = "crl_st_last" ->
            IF c.r > 0
            THEN Res(At("crl_st_dec", c.r), Rlm("last_update", t), cm, "")
            ELSE Res(CpuDone(c), Rlm("last_update", t), cm, "reject")
      [] c.pc = "crl_st_dec" ->
            Res(At("crl_ld_count", 0), Rlm("tokens", c.r - 1), cm, "")
      [] c.pc = "crl_ld_count" ->
            Res(At("crl_st_count", rlm[key].packet_count), rlm, cm, "")
      [] c.pc = "crl_st_count" ->
            Res(At("uct_lookup", 0), Rlm("packet_count", c.r + 1), cm, "admit")
      [] c.pc = "uct_lookup" ->
            IF conn_hash \notin DOMAIN cm.tab
            THEN Res(CpuDone(c), rlm,
                     update_connection_tracking(h.src_ip, h.dst_ip, h.src_port,
                         h.dst_port, h.protocol, service.id, packet_len, t, cm),
                     "tracked")
            ELSE Res(At("uct_st_activity", 0), rlm, lru_lookup(cm, conn_hash), "")
      [] c.pc = "uct_st_activity" ->
            Res(At("uct_ld_packets", 0), rlm, Cm("last_activity", t), "")
      [] c.pc = "uct_ld_packets" ->
            Res(At("uct_st_packets", cm.tab[conn_hash].packets_rx), rlm, cm, "")
      [] c.pc = "uct_st_packets" ->
            Res(At("uct_ld_bytes", 0), rlm, Cm("packets_rx", c.r + 1), "")
      [] c.pc = "uct_ld_bytes" ->
            Res(At("uct_st_bytes", cm.tab[conn_hash].bytes_rx), rlm, cm, "")
      [] c.pc = "uct_st_bytes" ->
            Res(CpuDone(c), rlm, Cm("bytes_rx", c.r + packet_len), "tracked")

\* the statistics steps, the rate-limited packet leaving dropped_packets
\* alone
er_smp_stats_skips_dropped(c, t, junk, sm, atm, st) ==
    LET buf == Packets[c.p].buf
        service_key == er_find_service(sm, 1, c.h.dst_ip, c.h.dst_port,
                                       c.h.protocol)
        service == sm[service_key]
        At(pc) == [c EXCEPT !.pc = pc]
        Res(c1, st1) == [c |-> c1, st |-> st1]
    IN
    CASE c.pc = "st_rate_limited" -> Res(CpuDone(c), Inc(st, "rate_limited"))
      [] c.pc = "st_tail" ->
            IF /\ service.auth_type = AUTH_SIMPLE
               /\ check_authentication(buf, service_key, t, atm, junk) = 0
            THEN Res(At("st_dropped"), Inc(st, "auth_failures"))
            ELSE IF needs_complex_processing(buf, service, junk) = 1
            THEN Res(CpuDone(c), Inc(st, "redirected_go"))
            ELSE Res(CpuDone(c), Inc(st, "passed_packets"))
      [] c.pc = "st_dropped" -> Res(CpuDone(c), Inc(st, "dropped_packets"))
      [] c.pc = "st_invalid" ->
            Res(At("st_invalid_packets"), Inc(st, "dropped_packets"))
      [] c.pc = "st_invalid_packets" ->
            Res(CpuDone(c), Inc(st, "invalid_packets"))
      [] c.pc = "st_passed" -> Res(CpuDone(c), Inc(st, "passed_packets"))

\* enhanced_rules.c, process_packet behind update_connection_tracking and at
\* its labels: the next statement of the CPU with registers c that updates
\* stats_map.  Every update is one __sync_fetch_and_add.  "st_tail" is the
\* authentication check and needs_complex_processing, which read the packet
\* and auth_tokens_map only, with the counter they lead to.
er_smp_stats(c, t, junk, sm, atm, st) ==
    LET buf == Packets[c.p].buf
        service_key == er_find_service(sm, 1, c.h.dst_ip, c.h.dst_port,
                                       c.h.protocol)
        service == sm[service_key]
        At(pc) == [c EXCEPT !.pc = pc]
        Res(c1, st1) == [c |-> c1, st |-> st1]
    IN
    CASE c.pc = "st_rate_limited" -> Res(At("st_dropped"), Inc(st, "rate_limited"))
      [] c.pc = "st_tail" ->
            IF /\ service.auth_type = AUTH_SIMPLE
               /\ check_authentication(buf, service_key, t, atm, junk) = 0
            THEN Res(At("st_dropped"), Inc(st, "auth_failures"))
            ELSE IF needs_complex_processing(buf, service, junk) = 1
            THEN Res(CpuDone(c), Inc(st, "redirected_go"))
            ELSE Res(CpuDone(c), Inc(st, "passed_packets"))
      [] c.pc = "st_dropped" -> Res(CpuDone(c), Inc(st, "dropped_packets"))
      [] c.pc = "st_invalid" ->
            Res(At("st_invalid_packets"), Inc(st, "dropped_packets"))
      [] c.pc = "st_invalid_packets" ->
            Res(CpuDone(c), Inc(st, "invalid_packets"))
      [] c.pc = "st_passed" -> Res(CpuDone(c), Inc(st, "passed_packets"))

\* xdp_filter.c, update_connection_tracking: the next statement of the CPU
\* with registers c; done is TRUE when the function returned
xf_smp_step(c, t, ct) ==
    LET h == c.h
        hash == calc_connection_hash(h.src_ip, h.dst_ip, h.src_port,
                                     h.dst_port, h.protocol)
        Res(c1, ct1, done) == [c |-> c1, ct |-> ct1, done |-> done]
    IN
    CASE c.pc = "xf_lookup" ->
            IF hash \in DOMAIN ct.tab
            THEN Res([c EXCEPT !.pc = "xf_add_packets"], lru_lookup(ct, hash), FALSE)
            ELSE Res([c EXCEPT !.pc = "xf_insert"], ct, FALSE)
      \* bpf_map_update_elem(.., &new_conn, BPF_ANY) writes the entry over
      \* whatever the key holds by now
      [] c.pc = "xf_insert" ->
            Res(CpuDone(c),
                lru_update(ct, hash,
                    [src_ip |-> h.src_ip, dst_ip |-> h.dst_ip,
                     src_port |-> h.src_port, dst_port |-> h.dst_port,
                     protocol |-> h.protocol, state |-> 0, timestamp |-> t,
                     packets |-> 1, bytes |-> 0], ConnCap),
                TRUE)
      [] c.pc = "xf_add_packets" ->
            Res([c EXCEPT !.pc = "xf_st_timestamp"],
                [ct EXCEPT !.tab[hash].packets = @ + 1], FALSE)
      [] c.pc = "xf_st_timestamp" ->
            Res(CpuDone(c), [ct EXCEPT !.tab[hash].timestamp = t], TRUE)

\* marchproxy.c, marchproxy_ingress from the lookup in connections_map to the
\* end of the connection tracking: the next statement of the CPU with
\* registers c (h.key the connection key, h.service_id the id of the
\* destination service); done is TRUE behind the last statement
mp_smp_step(c, t, cm) ==
    LET key == c.h.key
        Res(c1, cm1, done) == [c |-> c1, cm |-> cm1, done |-> done]
    IN
    CASE c.pc = "mp_lookup" ->
            IF key \in DOMAIN cm
            THEN Res([c EXCEPT !.pc = "mp_add_packets"], cm, FALSE)
            ELSE Res([c EXCEPT !.pc = "mp_insert"], cm, FALSE)
      [] c.pc = "mp_add_packets" ->
            Res([c EXCEPT !.pc = "mp_add_bytes"],
                [cm EXCEPT ![key].packets = @ + 1], FALSE)
      [] c.pc = "mp_add_bytes" ->
            Res([c EXCEPT !.pc = "mp_st_timestamp"],
                [cm EXCEPT ![key].bytes = @ + c.len], FALSE)
      [] c.pc = "mp_st_timestamp" ->
            Res(CpuDone(c), [cm EXCEPT ![key].timestamp = t], TRUE)
      \* bpf_map_update_elem(.., &new_conn, BPF_ANY)
      [] c.pc = "mp_insert" ->
            Res(CpuDone(c),
                IF key \notin DOMAIN cm /\ Cardinality(DOMAIN cm) >= ConnCap
                THEN cm
                ELSE [k \in DOMAIN cm \cup {key} |->
                        IF k = key
                        THEN [packets |-> 1, bytes |-> c.len, timestamp |-> t,
                              service_id |-> c.h.service_id, authenticated |-> 0]
                        ELSE cm[k]],
                TRUE)

\* rate_limit.c, xdp_rate_limiter behind parse_ipv4: the next statement of
\* the CPU with registers c at time t.  ev is what the statement completed:
\* "global_pass" / "ip_pass" (check_global_rate_limit / check_ip_rate_limit
\* returned XDP_PASS), "stats" (update_stats returned), "" otherwise.
\* bpf_map_update_elem with the pointer the lookup returned copies the
\* entry onto itself.
rl_smp_step(c, t, config, gst, ipm, stats) ==
    LET src_ip == c.h.src_ip
        Ip(f, v) == [ipm EXCEPT ![src_ip][f] = v]
        At(pc, r) == [c EXCEPT !.pc = pc, !.r = r]
        AfterGlobal == IF config.per_ip_pps_limit > 0 THEN "i_lookup"
                       ELSE "s_ld_total"
        Res(c1, gst1, ipm1, stats1, ev) ==
            [c |-> c1, gst |-> gst1, ipm |-> ipm1, stats |-> stats1, ev |-> ev]
    IN
    CASE c.pc = "g_ld_last" ->
            Res(At(IF t - gst.last_update_ns >= config.window_size_ns
                   THEN "g_st_last" ELSE "g_ld_count", 0),
                gst, ipm, stats, "")
      [] c.pc = "g_st_last" ->
            Res(At("g_st_reset", 0), [gst EXCEPT !.last_update_ns = t], ipm,
                stats, "")
      [] c.pc = "g_st_reset" ->
            Res([c EXCEPT !.pc = "g_ld_total", !.cnt = 1],
                [gst EXCEPT !.packet_count = 1], ipm, stats, "")
      [] c.pc = "g_ld_count" ->
            Res(At("g_st_count", gst.packet_count), gst, ipm, stats, "")
      [] c.pc = "g_st_count" ->
            Res([c EXCEPT !.pc = "g_ld_total", !.cnt = c.r + 1],
                [gst EXCEPT !.packet_count = c.r + 1], ipm, stats, "")
      [] c.pc = "g_ld_total" ->
            Res(At("g_st_total", gst.total_packets), gst, ipm, stats, "")
      [] c.pc = "g_st_total" ->
            IF c.cnt > config.global_pps_limit
            THEN Res(At("g_ld_dropped", 0),
                     [gst EXCEPT !.total_packets = c.r + 1], ipm, stats, "")
            ELSE Res([c EXCEPT !.pc = AfterGlobal, !.r = 0, !.cnt = 0,
                               !.action = XDP_PASS],
                     [gst EXCEPT !.total_packets = c.r + 1], ipm, stats,
                     "global_pass")
      [] c.pc = "g_ld_dropped" ->
            Res(At("g_st_dropped", gst.dropped_packets), gst, ipm, stats, "")
      [] c.pc = "g_st_dropped" ->
            Res([c EXCEPT !.pc = "s_ld_total", !.r = 0, !.cnt = 0,
                          !.action = XDP_DROP, !.global_drop = TRUE],
                [gst EXCEPT !.dropped_packets = c.r + 1], ipm, stats, "")
      [] c.pc = "i_lookup" ->
            IF src_ip \notin DOMAIN ipm
            THEN Res([c EXCEPT !.pc = "s_ld_total", !.action = XDP_PASS], gst,
                     check_ip_rate_limit(config, src_ip, t, ipm).map, stats,
                     "ip_pass")
            ELSE Res(At("i_ld_last", 0), gst, ipm, stats, "")
      [] c.pc = "i_ld_last" ->
            Res(At(IF t - ipm[src_ip].last_update_ns >= config.window_size_ns
                   THEN "i_st_last" ELSE "i_ld_count", 0),
                gst, ipm, stats, "")
      [] c.pc = "i_st_last" ->
            Res(At("i_st_reset", 0), gst, Ip("last_update_ns", t), stats, "")
      [] c.pc = "i_st_reset" ->
            Res([c EXCEPT !.pc = "i_st_burst", !.cnt = 1], gst,
                Ip("packet_count", 1), stats, "")
      [] c.pc = "i_st_burst" ->
            Res(At("i_ld_total", 0), gst,
                Ip("burst_tokens", config.burst_allowance), stats, "")
      [] c.pc = "i_ld_count" ->
            Res(At("i_st_count", ipm[src_ip].packet_count), gst, ipm, stats, "")
      [] c.pc = "i_st_count" ->
            Res([c EXCEPT !.pc = "i_ld_total", !.cnt = c.r + 1], gst,
                Ip("packet_count", c.r + 1), stats, "")
      [] c.pc = "i_ld_total" ->
            Res(At("i_st_total", ipm[src_ip].total_packets), gst, ipm, stats, "")
      [] c.pc = "i_st_total" ->
            IF c.cnt > config.per_ip_pps_limit
            THEN Res(At("i_ld_burst", 0), gst, Ip("total_packets", c.r + 1),
                     stats, "")
            ELSE Res([c EXCEPT !.pc = "s_ld_total", !.r = 0, !.cnt = 0,
                               !.action = XDP_PASS],
                     gst, Ip("total_packets", c.r + 1), stats, "ip_pass")
      [] c.pc = "i_ld_burst" ->
            Res(At(IF ipm[src_ip].burst_tokens > 0 THEN "i_st_burst_dec"
                   ELSE "i_ld_dropped", ipm[src_ip].burst_tokens),
                gst, ipm, stats, "")
      [] c.pc = "i_st_burst_dec" ->
            Res([c EXCEPT !.pc = "s_ld_total", !.r = 0, !.cnt = 0,
                          !.action = XDP_PASS],
                gst, Ip("burst_tokens", c.r - 1), stats, "ip_pass")
      [] c.pc = "i_ld_dropped" ->
            Res(At("i_st_dropped", ipm[src_ip].dropped_packets), gst, ipm,
                stats, "")
      [] c.pc = "i_st_dropped" ->
            Res([c EXCEPT !.pc = "s_ld_total", !.r = 0, !.cnt = 0,
                          !.action = XDP_DROP, !.ip_drop = TRUE],
                gst, Ip("dropped_packets", c.r + 1), stats, "")
      [] c.pc = "s_ld_total" ->
            Res(At("s_st_total", stats.total_packets), gst, ipm, stats, "")
      [] c.pc = "s_st_total" ->
            Res(At(IF c.action = XDP_DROP THEN "s_ld_dropped" ELSE "s_ld_passed", 0),
                gst, ipm, [stats EXCEPT !.total_packets = c.r + 1], "")
      [] c.pc = "s_ld_dropped" ->
            Res(At("s_st_dropped", stats.dropped_packets), gst, ipm, stats, "")
      [] c.pc = "s_st_dropped" ->
            Res(At(IF c.global_drop THEN "s_ld_global" ELSE "s_ld_ip", 0),
                gst, ipm, [stats EXCEPT !.dropped_packets = c.r + 1], "")
      [] c.pc = "s_ld_global" ->
            Res(At("s_st_global", stats.global_drops), gst, ipm, stats, "")
      [] c.pc = "s_st_global" ->
            Res(CpuDone(c), gst, ipm, [stats EXCEPT !.global_drops = c.r + 1],
                "stats")
      [] c.pc = "s_ld_ip" ->
            Res(At("s_st_ip", stats.per_ip_drops), gst, ipm, stats, "")
      [] c.pc = "s_st_ip" ->
            Res(CpuDone(c), gst, ipm, [stats EXCEPT !.per_ip_drops = c.r + 1],
                "stats")
      [] c.pc = "s_ld_passed" ->
            Res(At("s_st_passed", stats.passed_packets), gst, ipm, stats, "")
      [] c.pc = "s_st_passed" ->
            Res(CpuDone(c), gst, ipm, [stats EXCEPT !.passed_packets = c.r + 1],
                "stats")

---------------------------------------------------------------------------
(* Tables the configuration plane wrote before the first packet *)

Svc(id, ip, port_start, port_end, protocol, auth_type, tls, ws, pps) ==
    [service_id |-> id, ip_addr |-> inet_addr(ip), port_start |-> port_start,
     port_end |-> port_end, protocol |-> protocol, auth_type |-> auth_type,
     requires_tls |-> tls, allows_websocket |-> ws, rate_limit_pps |-> pps,
     bandwidth_limit |-> 0, last_activity |-> 0, packet_count |-> 0,
     byte_count |-> 0]

\* a rule on the destination only: the source and the ports are wildcards
DstRule(id, ip, protocol, action, service_id) ==
    [rule_id |-> id, src_ip |-> <<0, 0>>, src_mask |-> <<0, 0>>,
     dst_ip |-> inet_addr(ip), dst_mask |-> <<65535, 65535>>,
     src_port_start |-> 0, src_port_end |-> 65535,
     dst_port_start |-> 0, dst_port_end |-> 65535,
     protocol |-> protocol, action |-> action, auth_required |-> 0,
     priority |-> 0, service_id |-> service_id,
     packet_count |-> 0, byte_count |-> 0, last_match |-> 0]

Token(tok, service_id, expiry_time) ==
    TokenHash(tok) :> [token_hash |-> TokenHash(tok), service_id |-> service_id,
                       expiry_time |-> expiry_time, permissions |-> 1]

ErConfigs == <<
    \* plain service, a TLS service, and a drop rule for the first
    [pkts |-> (1..16) \cup {17, 19, 26, 27, 28, 29, 30},
     services |-> (1 :> Svc(1, D1, 80, 80, 0, AUTH_NONE, 0, 0, 0))
                  @@ (2 :> Svc(2, D1, 443, 443, PROTO_TCP, AUTH_NONE, 1, 0, 0)),
     rules |-> (1 :> DstRule(1, D1, 0, ACTION_DROP, 1)),
     tokens |-> <<>>],
    \* two rate-limited services reached from the same sources
    [pkts |-> {12, 14, 15, 16},
     services |-> (1 :> Svc(1, D1, 80, 80, 0, AUTH_NONE, 0, 0, 4))
                  @@ (2 :> Svc(2, D2, 80, 80, 0, AUTH_NONE, 0, 0, 1)),
     rules |-> <<>>,
     tokens |-> <<>>],
    \* simple authentication; token 1 for any service expires at time 2,
    \* token 2 belongs to service 2
    [pkts |-> {12, 15, 16, 18} \cup (20..24),
     services |-> (1 :> Svc(1, D1, 80, 80, 0, AUTH_SIMPLE, 0, 0, 0))
                  @@ (2 :> Svc(2, D2, 80, 80, 0, AUTH_SIMPLE, 0, 0, 0)),
     rules |-> <<>>,
     tokens |-> Token(TOK1, 0, 2) @@ Token(TOK2, 2, 9)],
    \* a TLS service with simple authentication and a rate limit; a
    \* service with complex authentication and a rate limit
    [pkts |-> {12, 13, 15, 17, 19, 21, 25},
     services |-> (1 :> Svc(1, D1, 80, 443, PROTO_TCP, AUTH_SIMPLE, 1, 0, 2))
                  @@ (2 :> Svc(2, D2, 80, 80, 0, AUTH_COMPLEX, 0, 0, 1)),
     rules |-> <<>>,
     tokens |-> Token(TOK1, 0, 9)],
    \* services that overlap: key 1 takes UDP on port 80, key 2 any protocol
    \* on ports 1..100
    [pkts |-> {8, 12, 13, 15, 16, 36},
     services |-> (1 :> Svc(1, D1, 80, 80, PROTO_UDP, AUTH_NONE, 0, 0, 0))
                  @@ (2 :> Svc(2, D1, 1, 100, 0, AUTH_NONE, 0, 0, 0)),
     rules |-> <<>>,
     tokens |-> <<>>],
    \* two NTP peers, each a service
    [pkts |-> 31..34,
     services |-> (1 :> Svc(1, D1, 123, 123, PROTO_UDP, AUTH_NONE, 0, 0, 0))
                  @@ (2 :> Svc(2, S1, 123, 1234, PROTO_UDP, AUTH_NONE, 0, 0, 0)),
     rules |-> <<>>,
     tokens |-> <<>>]
>>

\* the upserts the configuration plane may apply while enhanced_rules.c
\* runs: service 1 turned into a TLS service, a HTTPS service under key 2,
\* a third service
CpUpserts == {
    [key |-> 1, rule |-> Svc(1, D1, 80, 80, 0, AUTH_NONE, 1, 0, 0)],
    [key |-> 2, rule |-> Svc(2, D1, 443, 443, PROTO_TCP, AUTH_NONE, 0, 0, 0)],
    [key |-> 3, rule |-> Svc(3, D2, 80, 80, 0, AUTH_NONE, 0, 0, 0)]}

CpPkts == {12, 13, 15}

\* envoy_xdp.c: TCP packets of one client whose payload is the first
\* EvLens[l] bytes of <<b0, b1, b2, 0, 0>>, for every choice of the first
\* three bytes around the TLS record header and three destination ports
EvB0 == <<21, 22, 23, 24>>
EvB1 == <<2, 3>>
EvB2 == <<0, 1, 4, 5>>
EvLens == <<2, 3, 5>>
EvPorts == <<443, 8443, 80>>
NEvTls == Len(EvB0) * Len(EvB1) * Len(EvB2) * Len(EvLens) * Len(EvPorts)

\* the destination port and the payload of the i-th of these packets
EvField(i) ==
    LET j == i - 1
        l == EvLens[(j % 3) + 1]
        b2 == EvB2[((j \div 3) % 4) + 1]
        b1 == EvB1[((j \div 12) % 2) + 1]
        b0 == EvB0[((j \div 24) % 4) + 1]
    IN  [dport |-> EvPorts[((j \div 96) % 3) + 1],
         payload |-> SubSeq(<<b0, b1, b2, 0, 0>>, 1, l)]

\* further frames: cut inside the Ethernet, IP and TCP headers, IPv6, an
\* IHL of 4, UDP, TCP without payload, a GET request to port 80, TCP
\* without payload of a second client
EvExtra == <<1, 2, 3, 4, 29, 16, 12, 17, 14>>

\* the frame of packet i
EvBuf(i) ==
    IF i <= NEvTls
    THEN Tcp(S1, D1, EvField(i).dport, EvField(i).payload).buf
    ELSE Packets[EvExtra[i - NEvTls]].buf

\* the traffic of one behaviour: the packets to port EvPorts[q] and the
\* further frames
EvPkts(q) ==
    LET n == NEvTls \div Len(EvPorts)
    IN  (((q - 1) * n + 1)..(q * n)) \cup ((NEvTls + 1)..(NEvTls + Len(EvExtra)))

EvConfigs == <<
    [window_ns |-> 2, max_packets |-> 1, enabled |-> 1],
    [window_ns |-> 2, max_packets |-> 1, enabled |-> 0]
>>

\* traffic for the rate limiter: two clients, each sending the same packet
\* again and again
EvRlPkts == {NEvTls + 7, NEvTls + 9}

EvRlConfigs == <<
    [window_ns |-> 1, max_packets |-> 0, enabled |-> 1],
    [window_ns |-> 2, max_packets |-> 1, enabled |-> 1],
    [window_ns |-> 1, max_packets |-> 2, enabled |-> 1]
>>

\* the packets of one behaviour
EvBudget(ps) == IF ps = EvRlPkts THEN MaxEvRlPackets ELSE MaxEvPackets

EvStats0 ==
    [total_packets |-> 0, total_bytes |-> 0, http_packets |-> 0,
     https_packets |-> 0, http2_packets |-> 0, grpc_packets |-> 0,
     websocket_packets |-> 0, rate_limited |-> 0, dropped |-> 0]

\* a.b.c.d as bpf_ntohl(ip->daddr) yields it
host_addr(a) == <<a[1] * 256 + a[2], a[3] * 256 + a[4]>>

\* xdp_filter.c: a service rule under the key lookup_service computes for it
XfRule(id, ip, port, protocol, action) ==
    xf_service_key(host_addr(ip), protocol) :>
        [service_id |-> id, ip_addr |-> host_addr(ip), port |-> port,
         protocol |-> protocol, action |-> action, redirect_ip |-> <<0, 0>>,
         redirect_port |-> 0, auth_required |-> 0]

XfConfigs == <<
    [pkts |-> (1..16) \cup {29, 30, 36}, rules |-> XfRule(1, D1, 80, PROTO_TCP, 0)],
    [pkts |-> 12..16,
     rules |-> XfRule(1, D1, 80, PROTO_TCP, 1) @@ XfRule(2, D1, 80, PROTO_UDP, 2)],
    [pkts |-> (12..16) \cup (31..35), rules |-> <<>>]
>>

XfStats0 ==
    [total_packets |-> 0, passed_packets |-> 0, dropped_packets |-> 0,
     redirected_packets |-> 0, tcp_packets |-> 0, udp_packets |-> 0,
     other_packets |-> 0, malformed_packets |-> 0, last_update |-> 0]

\* rule_matcher.bpf.c: ip_addr and port in network byte order
RmRule(id, ip, port, protocol, action) ==
    id :> [service_id |-> id, ip_addr |-> inet_addr(ip), port |-> bpf_htons(port),
           protocol |-> protocol, action |-> action]

RmConfigs == <<
    [pkts |-> 1..16, rules |-> RmRule(1, D1, 80, PROTO_TCP, 0)],
    [pkts |-> 12..16,
     rules |-> RmRule(1, D1, 80, PROTO_TCP, 1) @@ RmRule(2, D1, 80, PROTO_TCP, 0)],
    [pkts |-> 12..16,
     rules |-> RmRule(1, D1, 80, PROTO_UDP, 2) @@ RmRule(2, D2, 80, PROTO_TCP, 0)]
>>

RmStats0 ==
    [total_packets |-> 0, tcp_packets |-> 0, udp_packets |-> 0,
     dropped_packets |-> 0, allowed_packets |-> 0, userspace_packets |-> 0]

\* rate_limit.c
RlConfig(enabled, global, per_ip, window, burst) ==
    [enabled |-> enabled, global_pps_limit |-> global, per_ip_pps_limit |-> per_ip,
     window_size_ns |-> window, burst_allowance |-> burst, action |-> 1]

RlConfigs == <<
    [license |-> 1, config |-> RlConfig(1, 0, 1, 2, 1)],
    [license |-> 1, config |-> RlConfig(1, 0, 2, 1, 0)],
    [license |-> 1, config |-> RlConfig(1, 2, 1, 2, 0)],
    [license |-> 1, config |-> RlConfig(1, 1, 0, 2, 0)],
    [license |-> 0, config |-> RlConfig(1, 0, 1, 2, 1)],
    [license |-> 1, config |-> RlConfig(0, 0, 1, 2, 1)],
    \* a global limit with a burst allowance
    [license |-> 1, config |-> RlConfig(1, 1, 0, 2, 1)]
>>

RlPkts == {2, 3, 10, 12, 14}

RlGlobal0 ==
    [last_update_ns |-> 0, packet_count |-> 0, total_packets |-> 0,
     dropped_packets |-> 0]

RlStats0 ==
    [total_packets |-> 0, passed_packets |-> 0, dropped_packets |-> 0,
     rate_limited_ips |-> 0, global_drops |-> 0, per_ip_drops |-> 0]

ErStats0 ==
    [total_packets |-> 0, passed_packets |-> 0, dropped_packets |-> 0,
     redirected_afxdp |-> 0, redirected_go |-> 0, rate_limited |-> 0,
     auth_failures |-> 0, invalid_packets |-> 0, last_update |-> 0]

\* marchproxy.c: a mapping (ports is the 16-slot array, unused slots 0) and
\* a service
Mapping(id, dests, ports, protocols, auth_required, priority) ==
    [id |-> id, dest_services |-> dests \o Rep(MAX_PORTS - Len(dests), 0),
     ports |-> ports \o Rep(MAX_PORTS - Len(ports), 0),
     protocols |-> protocols, auth_required |-> auth_required,
     priority |-> priority,
     port_count |-> Len(ports), dest_count |-> Len(dests)]

MpService(id, ip, port, auth_required) ==
    [id |-> id, ip_addr |-> inet_addr(ip), port |-> port,
     auth_required |-> auth_required]

MpPkts == {1, 2, 3, 4, 7, 8, 10, 12, 13, 14, 16, 29, 30}

MpConfigs == <<
    \* TCP port 80 forwarded to service 1
    [mappings |-> (1 :> Mapping(1, <<1>>, <<80>>, 1, 0, 0)),
     services |-> (1 :> MpService(1, D1, 80, 0))],
    \* every protocol, ports 80 and 0, to a service that wants authentication;
    \* TCP port 443 to a service that does not exist
    [mappings |-> (1 :> Mapping(1, <<1>>, <<80, 0>>, 7, 0, 0))
                  @@ (2 :> Mapping(2, <<9>>, <<443>>, 1, 0, 0)),
     services |-> (1 :> MpService(1, D1, 80, 1))],
    \* no mapping at all
    [mappings |-> <<>>, services |-> <<>>],
    \* two mappings for TCP port 80: the one with the higher id has the
    \* higher priority and wants authentication
    [mappings |-> (1 :> Mapping(1, <<1>>, <<80>>, 1, 0, 1))
                  @@ (2 :> Mapping(2, <<2>>, <<80, 443>>, 1, 1, 9)),
     services |-> (1 :> MpService(1, D1, 80, 0)) @@ (2 :> MpService(2, D2, 80, 0))],
    \* TCP ports 80 and 443 forwarded to service 1: more flows than
    \* connections_map holds
    [mappings |-> (1 :> Mapping(1, <<1>>, <<80, 443>>, 1, 0, 0)),
     services |-> (1 :> MpService(1, D1, 80, 0))]
>>

ProxyStats0 ==
    [total_packets |-> 0, total_bytes |-> 0, tcp_packets |-> 0,
     udp_packets |-> 0, icmp_packets |-> 0, dropped_packets |-> 0,
     forwarded_packets |-> 0, auth_required |-> 0, fallback_to_userspace |-> 0]

\* the flow the CPUs process at the same time: two packets of different
\* lengths of the flow 10.0.1.1:1234 -> 10.0.0.5:80
SmpPkts == {12, 17}

\* enhanced_rules.c on several CPUs: a service with a rate limit of 2
\* packets per second, and one without rate limit
ErSmpServices == <<
    (1 :> Svc(1, D1, 80, 80, 0, AUTH_NONE, 0, 0, 2)),
    (1 :> Svc(1, D1, 80, 80, 0, AUTH_NONE, 0, 0, 0)),
    \* a service with simple authentication (no token is registered)
    (1 :> Svc(1, D1, 80, 80, 0, AUTH_SIMPLE, 0, 0, 0))
>>

\* what the CPUs of enhanced_rules.c receive: the flow, a frame cut inside
\* the Ethernet header, a packet to a port without service and a TLS record
\* of the flow
ErSmpPkts == SmpPkts \cup {1, 13, 19}

\* the maps after a first packet of the flow was processed at time 0
ErSmpTracked(sm) ==
    process_packet(Packets[12].buf, 0, 0, sm, <<>>, EmptyLru, <<>>, ErStats0)

\* rate_limit.c on several CPUs: the configuration, the time the CPUs
\* start at, and whether the source sent a packet at time 0 before
RlSmpScenarios == <<
    \* a global limit, in the first window and one window later
    [config |-> RlConfig(1, 1, 0, 2, 0), now |-> 0, tracked |-> FALSE],
    [config |-> RlConfig(1, 1, 0, 2, 0), now |-> 2, tracked |-> FALSE],
    \* a per-source limit with one burst token
    [config |-> RlConfig(1, 0, 1, 2, 1), now |-> 0, tracked |-> FALSE],
    [config |-> RlConfig(1, 0, 1, 2, 1), now |-> 0, tracked |-> TRUE],
    [config |-> RlConfig(1, 0, 1, 2, 1), now |-> 2, tracked |-> TRUE],
    \* both limits
    [config |-> RlConfig(1, 3, 1, 2, 0), now |-> 0, tracked |-> TRUE]
>>

XfSmpTracked ==
    xdp_marchproxy_filter(Packets[12].buf, 0, XfConfigs[1].rules, EmptyLru,
                          XfStats0)

---------------------------------------------------------------------------
(* Initial states and actions *)

ErIdle ==
    /\ services_map = <<>> /\ rules_map = <<>> /\ auth_tokens_map = <<>>
    /\ rate_limit_map = <<>> /\ connection_map = EmptyLru /\ stats_map = ErStats0

ErInit ==
    /\ prog = "er"
    /\ \E c \in 1..Len(ErConfigs) :
        /\ pkts = ErConfigs[c].pkts
        /\ services_map = ErConfigs[c].services
        /\ rules_map = ErConfigs[c].rules
        /\ auth_tokens_map = ErConfigs[c].tokens
    /\ rate_limit_map = <<>>
    /\ connection_map = EmptyLru
    /\ stats_map = ErStats0

XfIdle == service_rules = <<>> /\ connection_table = EmptyLru /\ xf_stats_map = XfStats0
RlIdle ==
    /\ rate_limit_config_map = RlConfig(0, 0, 0, 0, 0) /\ enterprise_license_map = 0
    /\ ip_rate_state_map = <<>> /\ global_rate_state_map = RlGlobal0
    /\ rate_limit_stats_map = RlStats0 /\ rl_win = <<>>
RmIdle == rm_service_rules = <<>> /\ statistics = RmStats0

MpIdle ==
    /\ mappings_map = <<>> /\ mp_services_map = <<>>
    /\ connections_map = <<>> /\ proxy_stats = ProxyStats0

MpInit ==
    /\ prog = "mp"
    /\ pkts = MpPkts
    /\ \E c \in 1..Len(MpConfigs) :
        /\ mappings_map = MpConfigs[c].mappings
        /\ mp_services_map = MpConfigs[c].services
    /\ connections_map = <<>>
    /\ proxy_stats = ProxyStats0

SmpIdle == cpus = [c \in CPUs |-> CpuIdle] /\ smp_obs = SmpObs0

\* the flow is tracked and its source has a bucket; the CPUs start at time
\* 0 or one tick later
ErSmpInit ==
    /\ prog = "er_smp"
    /\ pkts = ErSmpPkts
    /\ now \in {0, 1}
    /\ \E i \in 1..Len(ErSmpServices) :
        /\ services_map = ErSmpTracked(ErSmpServices[i]).sm
        /\ rate_limit_map = ErSmpTracked(ErSmpServices[i]).rlm
        /\ connection_map = ErSmpTracked(ErSmpServices[i]).cm
        /\ stats_map = ErSmpTracked(ErSmpServices[i]).st
    /\ rules_map = <<>> /\ auth_tokens_map = <<>>

XfSmpInit ==
    /\ prog = "xf_smp"
    /\ pkts = SmpPkts
    /\ now \in {0, 1}
    /\ service_rules = XfConfigs[1].rules
    /\ connection_table = XfSmpTracked.ct
    /\ xf_stats_map = XfSmpTracked.st

\* xdp_filter.c on several CPUs, the flow not tracked yet
XfNewInit ==
    /\ prog = "xf_new"
    /\ pkts = SmpPkts
    /\ now \in {0, 1}
    /\ service_rules = XfConfigs[1].rules
    /\ connection_table = EmptyLru
    /\ xf_stats_map = XfStats0

\* marchproxy.c on several CPUs, TCP port 80 forwarded to service 1, the
\* flow not tracked yet
MpNewInit ==
    /\ prog = "mp_new"
    /\ pkts = SmpPkts
    /\ now \in {0, 1}
    /\ mappings_map = MpConfigs[1].mappings
    /\ mp_services_map = MpConfigs[1].services
    /\ connections_map = <<>>
    /\ proxy_stats = ProxyStats0

\* check_rate_limit called for a source that has a bucket: every limit_pps,
\* every number of tokens a call can leave behind (new entry limit_pps - 1,
\* after a refill limit_pps - 1, then counting down), every time on the
\* clock since the last update
CrlKey == inet_addr(Packets[12].saddr)
CrlInit ==
    /\ prog = "crl"
    /\ pkts = {12}
    /\ now \in 0 .. U64 - 1
    /\ \E limit_pps \in 1 .. U32 - 1 :
        /\ services_map = (1 :> Svc(1, D1, 80, 80, 0, AUTH_NONE, 0, 0, limit_pps))
        /\ \E tokens \in 0 .. limit_pps - 1, last_update \in {0, 1} :
            /\ last_update <= now
            /\ rate_limit_map =
                (CrlKey :> [key |-> CrlKey, last_update |-> last_update,
                            packet_count |-> 1, byte_count |-> 0,
                            tokens |-> tokens])
    /\ rules_map = <<>> /\ auth_tokens_map = <<>>
    /\ connection_map = EmptyLru /\ stats_map = ErStats0

\* Traffic without end.  Two sources send as often as they like while the
\* clock advances.  The fields no admission decision reads (statistics,
\* total_packets, dropped_packets, the packet_count of a bucket, the
\* connection table) are left out, a window's packet_count stops one above
\* the limit it is compared with, and time is kept relative to the oldest
\* timestamp that still matters: once now is MaxTime a tick moves every
\* timestamp back instead, down to 0.  MaxTime is at least every window
\* and one second, so an age of MaxTime decides as every larger age does.
LvSrcs == {12, 14}

LvRlConfigs == <<
    RlConfig(1, 0, 1, 2, 0),    \* per source: 1 packet per window
    RlConfig(1, 0, 1, 2, 1),    \* the same with one burst token
    RlConfig(1, 1, 0, 2, 0),    \* global: 1 packet per window
    RlConfig(1, 2, 1, 2, 0)     \* both limits
>>

LvCount(n, limit) == IF n > limit + 1 THEN limit + 1 ELSE n
LvBack(ts) == IF ts > 0 THEN ts - 1 ELSE 0

LvGlobal(state, config) ==
    [state EXCEPT !.packet_count = LvCount(@, config.global_pps_limit),
                  !.total_packets = 0, !.dropped_packets = 0]
LvIpStates(ipm, config) ==
    [s \in DOMAIN ipm |->
        [ipm[s] EXCEPT !.packet_count = LvCount(@, config.per_ip_pps_limit),
                       !.total_packets = 0, !.dropped_packets = 0]]
LvBuckets(rlm) == [k \in DOMAIN rlm |-> [rlm[k] EXCEPT !.packet_count = 0]]

LvRlInit ==
    /\ prog = "lv_rl"
    /\ pkts \in {{12}, LvSrcs}
    /\ enterprise_license_map = 1
    /\ \E c \in 1..Len(LvRlConfigs) : rate_limit_config_map = LvRlConfigs[c]
    /\ ip_rate_state_map = <<>>
    /\ global_rate_state_map = RlGlobal0
    /\ rate_limit_stats_map = RlStats0
    /\ rl_win = <<>>

LvErInit ==
    /\ prog = "lv_er"
    /\ pkts \in {{12}, LvSrcs}
    /\ \E limit_pps \in {1, 2} :
        services_map = (1 :> Svc(1, D1, 80, 80, 0, AUTH_NONE, 0, 0, limit_pps))
    /\ rules_map = <<>> /\ auth_tokens_map = <<>> /\ rate_limit_map = <<>>
    /\ connection_map = EmptyLru /\ stats_map = ErStats0

RlSmpInit ==
    /\ prog = "rl_smp"
    /\ pkts = {12}
    /\ enterprise_license_map = 1
    /\ \E i \in 1..Len(RlSmpScenarios) :
        /\ rate_limit_config_map = RlSmpScenarios[i].config
        /\ now = RlSmpScenarios[i].now
        /\ ip_rate_state_map =
             IF RlSmpScenarios[i].tracked
             THEN check_ip_rate_limit(RlSmpScenarios[i].config,
                      inet_addr(Packets[12].saddr), 0, <<>>).map
             ELSE <<>>
    /\ global_rate_state_map = RlGlobal0
    /\ rate_limit_stats_map = RlStats0
    /\ rl_win = <<>>

\* enhanced_rules.c attached, one service loaded, the loader still running
CpInit ==
    /\ prog = "er_cp"
    /\ pkts = CpPkts
    /\ services_map = (1 :> Svc(1, D1, 80, 80, 0, AUTH_NONE, 0, 0, 0))
    /\ rules_map = <<>>
    /\ auth_tokens_map = <<>>
    /\ rate_limit_map = <<>>
    /\ connection_map = EmptyLru
    /\ stats_map = ErStats0

\* envoy_xdp.c attached
EvInit ==
    /\ prog = "ev"
    /\ \/ /\ \E q \in 1..Len(EvPorts) : pkts = EvPkts(q)
          /\ \E c \in 1..Len(EvConfigs) : rate_limit_config_map = EvConfigs[c]
       \/ /\ pkts = EvRlPkts
          /\ \E c \in 1..Len(EvRlConfigs) : rate_limit_config_map = EvRlConfigs[c]
    /\ rate_limit_map = <<>>
    /\ stats_map = EvStats0
    /\ services_map = <<>> /\ rules_map = <<>> /\ auth_tokens_map = <<>>
    /\ connection_map = EmptyLru
    /\ enterprise_license_map = 0
    /\ ip_rate_state_map = <<>> /\ global_rate_state_map = RlGlobal0
    /\ rate_limit_stats_map = RlStats0 /\ rl_win = <<>>

XfInit ==
    /\ prog = "xf"
    /\ \E c \in 1..Len(XfConfigs) :
        pkts = XfConfigs[c].pkts /\ service_rules = XfConfigs[c].rules
    /\ connection_table = EmptyLru
    /\ xf_stats_map = XfStats0

RlInit ==
    /\ prog = "rl"
    /\ pkts = RlPkts
    /\ \E c \in 1..Len(RlConfigs) :
        /\ enterprise_license_map = RlConfigs[c].license
        /\ rate_limit_config_map = RlConfigs[c].config
    /\ ip_rate_state_map = <<>>
    /\ global_rate_state_map = RlGlobal0
    /\ rate_limit_stats_map = RlStats0
    /\ rl_win = <<>>

RmInit ==
    /\ prog = "rm"
    /\ \E c \in 1..Len(RmConfigs) :
        pkts = RmConfigs[c].pkts /\ rm_service_rules = RmConfigs[c].rules
    /\ statistics = RmStats0

Start == now = 0 /\ npk = 0 /\ pkt = 0 /\ verdict = NULL /\ note = {}

\* one packet through marchproxy_xdp_main
ErPacket ==
    /\ prog \in {"er", "er_cp"}
    /\ npk < MaxPackets
    /\ \E p \in pkts, junk \in JunkBytes :
        \E r \in {process_packet(Packets[p].buf, now, junk, services_map,
                     rate_limit_map, connection_map, auth_tokens_map, stats_map)} :
            /\ npk' = npk + 1
            /\ pkt' = p
            /\ verdict' = r.verdict
            /\ note' = r.note
            /\ services_map' = r.sm
            /\ rate_limit_map' = r.rlm
            /\ connection_map' = r.cm
            /\ stats_map' = r.st
    /\ UNCHANGED <<prog, pkts, now, rules_map, auth_tokens_map,
                   xf_vars, rl_vars, rm_vars, mp_vars, smp_vars>>

\* one call of check_rate_limit for the source, with the limit of service 1
CrlCall ==
    /\ prog = "crl"
    /\ npk = 0
    /\ \E r \in {check_rate_limit(CrlKey, services_map[1].rate_limit_pps, now,
                                  rate_limit_map)} :
        /\ rate_limit_map' = r.map
        /\ verdict' = IF r.ret = 1 THEN XDP_PASS ELSE XDP_DROP
    /\ npk' = npk + 1
    /\ pkt' = 12
    /\ note' = {"rate_limit"}
    /\ UNCHANGED <<prog, pkts, now, services_map, rules_map, connection_map,
                   auth_tokens_map, stats_map,
                   xf_vars, rl_vars, rm_vars, mp_vars, smp_vars>>

\* xdp_rate_limiter on one more packet of source p
LvRlPacket(p) ==
    /\ prog = "lv_rl" /\ p \in pkts
    /\ \E r \in {xdp_rate_limiter(Packets[p].buf, now, enterprise_license_map,
                     rate_limit_config_map, global_rate_state_map,
                     ip_rate_state_map, rate_limit_stats_map)} :
        /\ pkt' = p
        /\ verdict' = r.action
        /\ note' = r.note
        /\ global_rate_state_map' = LvGlobal(r.gst, rate_limit_config_map)
        /\ ip_rate_state_map' = LvIpStates(r.ipm, rate_limit_config_map)
    /\ UNCHANGED <<prog, pkts, now, npk, rate_limit_config_map,
                   enterprise_license_map, rate_limit_stats_map, rl_win,
                   er_vars, xf_vars, rm_vars, mp_vars, smp_vars>>

\* check_rate_limit of enhanced_rules.c on one more packet of source p,
\* called as process_packet calls it for a packet to service 1
LvErPacket(p) ==
    /\ prog = "lv_er" /\ p \in pkts
    /\ \E r \in {check_rate_limit(LoadU32(Packets[p].buf, ETH_HLEN + 12, 0),
                     services_map[1].rate_limit_pps, now, rate_limit_map)} :
        /\ pkt' = p
        /\ verdict' = IF r.ret = 1 THEN XDP_PASS ELSE XDP_DROP
        /\ note' = IF r.ret = 1 THEN {"rate_limit"}
                   ELSE {"rate_limit", "drop_rate_limited"}
        /\ rate_limit_map' = LvBuckets(r.map)
    /\ UNCHANGED <<prog, pkts, now, npk, services_map, rules_map, connection_map,
                   auth_tokens_map, stats_map,
                   xf_vars, rl_vars, rm_vars, mp_vars, smp_vars>>

LvPacket(p) == LvRlPacket(p) \/ LvErPacket(p)

\* the clock advances by one tick
LvTick ==
    /\ prog \in {"lv_rl", "lv_er"}
    /\ IF now < MaxTime
       THEN /\ now' = now + 1
            /\ UNCHANGED <<rate_limit_map, ip_rate_state_map, global_rate_state_map>>
       ELSE /\ now' = now
            /\ rate_limit_map' =
                [k \in DOMAIN rate_limit_map |->
                    [rate_limit_map[k] EXCEPT !.last_update = LvBack(@)]]
            /\ ip_rate_state_map' =
                [s \in DOMAIN ip_rate_state_map |->
                    [ip_rate_state_map[s] EXCEPT !.last_update_ns = LvBack(@)]]
            /\ global_rate_state_map' =
                [global_rate_state_map EXCEPT !.last_update_ns = LvBack(@)]
    /\ UNCHANGED <<prog, pkts, npk, pkt, verdict, note, services_map, rules_map,
                   connection_map, auth_tokens_map, stats_map,
                   rate_limit_config_map, enterprise_license_map,
                   rate_limit_stats_map, rl_win,
                   xf_vars, rm_vars, mp_vars, smp_vars>>

\* the loader applies one upsert to services_map
CpUpsert ==
    /\ prog = "er_cp"
    /\ \E u \in CpUpserts :
        services_map' = update_service_rule_xdp(services_map, u.key, u.rule)
    /\ UNCHANGED <<prog, pkts, now, npk, pkt, verdict, note, rules_map,
                   rate_limit_map, connection_map, auth_tokens_map, stats_map,
                   xf_vars, rl_vars, rm_vars, mp_vars, smp_vars>>

\* the window of source src after one more of its packets reached the
\* per-source limiter at time t: a packet that arrives window_size_ns or
\* more after the first packet of the window starts the next window
NextWindow(win, src, t, window, rejected) ==
    LET fresh == src \notin DOMAIN win
        w == win[src]
        first == fresh \/ t - w.start >= window
        nw == [start |-> IF first THEN t ELSE w.start,
               n |-> IF first THEN 1 ELSE w.n + 1,
               rejected |-> IF first THEN rejected ELSE w.rejected \/ rejected,
               refilled |-> IF first THEN ~fresh /\ w.rejected ELSE w.refilled]
    IN  IF fresh THEN (src :> nw) @@ win ELSE [win EXCEPT ![src] = nw]

\* one packet through xdp_envoy_filter
EvPacket ==
    /\ prog = "ev"
    /\ npk < EvBudget(pkts)
    /\ \E p \in pkts :
        \E r \in {xdp_envoy_filter(EvBuf(p), now, rate_limit_config_map,
                      rate_limit_map, stats_map)} :
            /\ npk' = npk + 1
            /\ pkt' = p
            /\ verdict' = r.verdict
            /\ note' = r.note
            /\ rate_limit_map' = r.rlm
            /\ stats_map' = r.st
            /\ rl_win' = IF "rate_limit" \in r.note /\ rate_limit_config_map.enabled # 0
                         THEN NextWindow(rl_win, LoadU32(EvBuf(p), ETH_HLEN + 12, 0),
                                  now, rate_limit_config_map.window_ns + 1,
                                  "rate_limited" \in r.note)
                         ELSE rl_win
    /\ UNCHANGED <<prog, pkts, now, services_map, rules_map, connection_map,
                   auth_tokens_map, rate_limit_config_map, enterprise_license_map,
                   ip_rate_state_map, global_rate_state_map, rate_limit_stats_map,
                   xf_vars, rm_vars, mp_vars, smp_vars>>

\* one packet through xdp_marchproxy_filter
XfPacket ==
    /\ prog = "xf"
    /\ npk < MaxPackets
    /\ \E p \in pkts :
        \E r \in {xdp_marchproxy_filter(Packets[p].buf, now, service_rules,
                      connection_table, xf_stats_map)} :
            /\ npk' = npk + 1
            /\ pkt' = p
            /\ verdict' = r.verdict
            /\ note' = r.note
            /\ connection_table' = r.ct
            /\ xf_stats_map' = r.st
    /\ UNCHANGED <<prog, pkts, now, service_rules, er_vars, rl_vars, rm_vars, mp_vars, smp_vars>>

\* one packet through rule_matcher_xdp
RmPacket ==
    /\ prog = "rm"
    /\ npk < MaxPackets
    /\ \E p \in pkts :
        \E r \in {rule_matcher_xdp(Packets[p].buf, rm_service_rules, statistics)} :
            /\ npk' = npk + 1
            /\ pkt' = p
            /\ verdict' = r.verdict
            /\ note' = r.note
            /\ statistics' = r.st
    /\ UNCHANGED <<prog, pkts, now, rm_service_rules, er_vars, xf_vars, rl_vars, mp_vars,
                   smp_vars>>

\* the key of the global scope in rl_win: no packet has this source
RlGlobalKey == <<0, 0>>

\* the entry of global_rate_state_map exists from the load on, with
\* last_update_ns = 0: the first window of the global scope starts at time 0
WithGlobalWindow(win) ==
    IF RlGlobalKey \in DOMAIN win THEN win
    ELSE (RlGlobalKey :> [start |-> 0, n |-> 0, rejected |-> FALSE,
                          refilled |-> FALSE]) @@ win

\* one packet through xdp_rate_limiter
RlPacket ==
    /\ prog = "rl"
    /\ npk < MaxRlPackets
    /\ \E p \in pkts :
        \E r \in {xdp_rate_limiter(Packets[p].buf, now, enterprise_license_map,
                      rate_limit_config_map, global_rate_state_map,
                      ip_rate_state_map, rate_limit_stats_map)} :
            /\ npk' = npk + 1
            /\ pkt' = p
            /\ verdict' = r.action
            /\ note' = r.note
            /\ global_rate_state_map' = r.gst
            /\ ip_rate_state_map' = r.ipm
            /\ rate_limit_stats_map' = r.stats
            /\ \E w \in {IF "global" \in r.note
                        THEN NextWindow(WithGlobalWindow(rl_win), RlGlobalKey, now,
                                 rate_limit_config_map.window_size_ns,
                                 "global_drop" \in r.note)
                        ELSE rl_win} :
                 rl_win' = IF "ip" \in r.note
                           THEN NextWindow(w, inet_addr(Packets[p].saddr), now,
                                    rate_limit_config_map.window_size_ns,
                                    r.action = XDP_DROP)
                           ELSE w
    /\ UNCHANGED <<prog, pkts, now, rate_limit_config_map, enterprise_license_map,
                   er_vars, xf_vars, rm_vars, mp_vars, smp_vars>>

\* the control plane writes the licence flag or the enabled flag of the
\* configuration while the limiter runs
RlGate ==
    /\ prog = "rl"
    /\ \/ /\ enterprise_license_map' = 1 - enterprise_license_map
          /\ UNCHANGED rate_limit_config_map
       \/ /\ rate_limit_config_map' =
                [rate_limit_config_map EXCEPT !.enabled = 1 - @]
          /\ UNCHANGED enterprise_license_map
    /\ UNCHANGED <<prog, pkts, now, npk, pkt, verdict, note, ip_rate_state_map,
                   global_rate_state_map, rate_limit_stats_map, rl_win,
                   er_vars, xf_vars, rm_vars, mp_vars, smp_vars>>

\* one packet through marchproxy_ingress
MpPacket ==
    /\ prog = "mp"
    /\ npk < MaxPackets
    /\ \E p \in pkts :
        \E r \in {marchproxy_ingress(Packets[p].buf, now, mappings_map,
                      mp_services_map, connections_map, proxy_stats)} :
            /\ npk' = npk + 1
            /\ pkt' = p
            /\ verdict' = r.verdict
            /\ note' = r.note
            /\ connections_map' = r.cm
            /\ proxy_stats' = r.st
    /\ UNCHANGED <<prog, pkts, now, mappings_map, mp_services_map,
                   er_vars, xf_vars, rl_vars, rm_vars, smp_vars>>

\* the statistics counters process_packet leaves from
ErStatPcs == {"st_rate_limited", "st_tail", "st_dropped", "st_invalid",
              "st_invalid_packets", "st_passed"}

\* a CPU takes the next packet off its queue: process_packet counts it in
\* total_packets, parses it and scans services_map
ErCpuStart(i) ==
    /\ prog = "er_smp"
    /\ cpus[i].pc = "idle" /\ smp_obs.started < MaxSmpPackets
    /\ smp_obs' = Inc(smp_obs, "started")
    /\ stats_map' = [stats_map EXCEPT !.total_packets = @ + 1,
                                      !.last_update = now]
    /\ \E p \in pkts :
        LET h == er_parse(Packets[p].buf)
        IN  cpus' = [cpus EXCEPT ![i] =
                    [@ EXCEPT !.p = p, !.h = h,
                              !.len = Len(Packets[p].buf),
                              !.pc = IF h.out = "drop_invalid" THEN "st_invalid"
                                     ELSE IF \/ h.out = "pass_simple"
                                             \/ er_find_service(services_map, 1,
                                                    h.dst_ip, h.dst_port,
                                                    h.protocol) = 0
                                     THEN "st_passed"
                                     ELSE IF services_map[1].rate_limit_pps > 0
                                     THEN "crl_lookup" ELSE "uct_lookup"]]
    /\ UNCHANGED <<prog, pkts, now, npk, pkt, verdict, note, services_map,
                   rules_map, rate_limit_map, connection_map, auth_tokens_map,
                   xf_vars, rl_vars, rm_vars, mp_vars>>

\* a CPU executes its next statement of process_packet
ErCpuStep(i) ==
    /\ prog = "er_smp"
    /\ cpus[i].pc \notin {"idle"} \cup ErStatPcs
    /\ \E r \in {er_smp_step(cpus[i], now, services_map, rate_limit_map,
                             connection_map)} :
        \* behind check_rate_limit and update_connection_tracking the CPU
        \* goes on to the statistics
        /\ cpus' = [cpus EXCEPT ![i] =
                       IF r.ev = "reject"
                       THEN [cpus[i] EXCEPT !.pc = "st_rate_limited"]
                       ELSE IF r.ev = "tracked"
                       THEN [cpus[i] EXCEPT !.pc = "st_tail"]
                       ELSE r.c]
        /\ rate_limit_map' = r.rlm
        /\ connection_map' = r.cm
        /\ smp_obs' =
            IF r.ev = "admit" THEN Inc(smp_obs, "admitted")
            ELSE IF r.ev = "tracked"
            THEN [smp_obs EXCEPT !.tracked = @ + 1,
                                 !.bytes = @ + cpus[i].len]
            ELSE smp_obs
    /\ UNCHANGED <<prog, pkts, now, npk, pkt, verdict, note, services_map,
                   rules_map, auth_tokens_map, stats_map,
                   xf_vars, rl_vars, rm_vars, mp_vars>>

\* a CPU executes its next update of stats_map
ErCpuStats(i) ==
    /\ prog = "er_smp"
    /\ cpus[i].pc \in ErStatPcs
    /\ \E junk \in JunkBytes :
        \E r \in {er_smp_stats(cpus[i], now, junk, services_map,
                               auth_tokens_map, stats_map)} :
            /\ cpus' = [cpus EXCEPT ![i] = r.c]
            /\ stats_map' = r.st
    /\ UNCHANGED <<prog, pkts, now, npk, pkt, verdict, note, services_map,
                   rules_map, rate_limit_map, connection_map, auth_tokens_map,
                   smp_obs, xf_vars, rl_vars, rm_vars, mp_vars>>

XfCpuStart(i) ==
    /\ prog \in {"xf_smp", "xf_new"}
    /\ cpus[i].pc = "idle" /\ smp_obs.started < MaxSmpPackets
    /\ smp_obs' = Inc(smp_obs, "started")
    /\ \E p \in pkts :
        cpus' = [cpus EXCEPT ![i] =
                    [@ EXCEPT !.p = p, !.h = xf_parse(Packets[p].buf),
                              !.len = Len(Packets[p].buf), !.pc = "xf_lookup"]]
    /\ UNCHANGED <<prog, pkts, now, npk, pkt, verdict, note,
                   er_vars, xf_vars, rl_vars, rm_vars, mp_vars>>

\* a CPU executes its next statement of update_connection_tracking
XfCpuStep(i) ==
    /\ prog \in {"xf_smp", "xf_new"}
    /\ cpus[i].pc # "idle"
    /\ \E r \in {xf_smp_step(cpus[i], now, connection_table)} :
        /\ cpus' = [cpus EXCEPT ![i] = r.c]
        /\ connection_table' = r.ct
        /\ smp_obs' = IF r.done THEN Inc(smp_obs, "tracked") ELSE smp_obs
    /\ UNCHANGED <<prog, pkts, now, npk, pkt, verdict, note, service_rules,
                   xf_stats_map, er_vars, rl_vars, rm_vars, mp_vars>>

\* a CPU takes the next packet off its queue: marchproxy_ingress parses
\* it, finds its mapping and destination service and reaches the
\* connection tracking
MpCpuStart(i) ==
    /\ prog = "mp_new"
    /\ cpus[i].pc = "idle" /\ smp_obs.started < MaxSmpPackets
    /\ smp_obs' = Inc(smp_obs, "started")
    /\ \E p \in pkts :
        LET buf == Packets[p].buf
            th == parse_eth_hdr(buf) + parse_ip_hdr(buf, parse_eth_hdr(buf))
            protocol == Rd(buf, ETH_HLEN + 9, 0)
            src_port == bpf_ntohs(LoadU16(buf, th, 0))
            dst_port == bpf_ntohs(LoadU16(buf, th + 2, 0))
            mapping == find_mapping(mappings_map, 1, dst_port, protocol)
            dest_service == find_dest_service(mappings_map[mapping],
                                              mp_services_map)
        IN  /\ "forwarded" \in marchproxy_ingress(buf, now, mappings_map,
                                   mp_services_map, connections_map,
                                   proxy_stats).note
            /\ cpus' = [cpus EXCEPT ![i] =
                    [@ EXCEPT !.p = p, !.len = Len(buf), !.pc = "mp_lookup",
                              !.h = [key |-> <<LoadU32(buf, ETH_HLEN + 12, 0),
                                               LoadU32(buf, ETH_HLEN + 16, 0),
                                               src_port, dst_port, protocol>>,
                                     service_id |->
                                         mp_services_map[dest_service].id]]]
    /\ UNCHANGED <<prog, pkts, now, npk, pkt, verdict, note,
                   er_vars, xf_vars, rl_vars, rm_vars, mp_vars>>

\* a CPU executes its next statement of the connection tracking
MpCpuStep(i) ==
    /\ prog = "mp_new"
    /\ cpus[i].pc # "idle"
    /\ \E r \in {mp_smp_step(cpus[i], now, connections_map)} :
        /\ cpus' = [cpus EXCEPT ![i] = r.c]
        /\ connections_map' = r.cm
        /\ smp_obs' = IF r.done THEN Inc(smp_obs, "tracked") ELSE smp_obs
    /\ UNCHANGED <<prog, pkts, now, npk, pkt, verdict, note, mappings_map,
                   mp_services_map, proxy_stats,
                   er_vars, xf_vars, rl_vars, rm_vars>>

RlCpuStart(i) ==
    /\ prog = "rl_smp"
    /\ cpus[i].pc = "idle" /\ smp_obs.started < MaxSmpPackets
    /\ smp_obs' = Inc(smp_obs, "started")
    /\ \E p \in pkts :
        cpus' = [cpus EXCEPT ![i] =
                    [@ EXCEPT !.p = p, !.h = parse_ipv4(Packets[p].buf),
                              !.len = Len(Packets[p].buf),
                              !.pc = IF rate_limit_config_map.global_pps_limit > 0
                                     THEN "g_ld_last"
                                     ELSE IF rate_limit_config_map.per_ip_pps_limit > 0
                                     THEN "i_lookup"
                                     ELSE "s_ld_total"]]
    /\ UNCHANGED <<prog, pkts, now, npk, pkt, verdict, note,
                   er_vars, xf_vars, rl_vars, rm_vars, mp_vars>>

\* a CPU executes its next statement of xdp_rate_limiter
RlCpuStep(i) ==
    /\ prog = "rl_smp"
    /\ cpus[i].pc # "idle"
    /\ \E r \in {rl_smp_step(cpus[i], now, rate_limit_config_map,
                             global_rate_state_map, ip_rate_state_map,
                             rate_limit_stats_map)} :
        /\ cpus' = [cpus EXCEPT ![i] = r.c]
        /\ global_rate_state_map' = r.gst
        /\ ip_rate_state_map' = r.ipm
        /\ rate_limit_stats_map' = r.stats
        /\ smp_obs' =
            IF r.ev = "global_pass" THEN Inc(smp_obs, "global_admitted")
            ELSE IF r.ev = "ip_pass" THEN Inc(smp_obs, "ip_admitted")
            ELSE IF r.ev = "stats" THEN Inc(smp_obs, "stat_calls")
            ELSE smp_obs
    /\ UNCHANGED <<prog, pkts, now, npk, pkt, verdict, note,
                   rate_limit_config_map, enterprise_license_map, rl_win,
                   er_vars, xf_vars, rm_vars, mp_vars>>

\* the clock advances between packets
Tick ==
    /\ prog \in {"er", "xf", "rl", "rm", "mp", "er_cp", "ev"}
    /\ now < MaxTime
    /\ now' = now + 1
    /\ UNCHANGED <<prog, pkts, npk, pkt, verdict, note,
                   er_vars, xf_vars, rl_vars, rm_vars, mp_vars, smp_vars>>

InitEr == Start /\ ErInit /\ XfIdle /\ RlIdle /\ RmIdle /\ MpIdle /\ SmpIdle
InitXf == Start /\ ErIdle /\ XfInit /\ RlIdle /\ RmIdle /\ MpIdle /\ SmpIdle
InitRl == Start /\ ErIdle /\ XfIdle /\ RlInit /\ RmIdle /\ MpIdle /\ SmpIdle
InitRm == Start /\ ErIdle /\ XfIdle /\ RlIdle /\ RmInit /\ MpIdle /\ SmpIdle
InitMp == Start /\ ErIdle /\ XfIdle /\ RlIdle /\ RmIdle /\ MpInit /\ SmpIdle
SmpStart ==
    /\ npk = 0 /\ pkt = 0 /\ verdict = NULL /\ note = {}
    /\ cpus = [c \in CPUs |-> CpuIdle] /\ smp_obs = SmpObs0
InitErSmp == SmpStart /\ ErSmpInit /\ XfIdle /\ RlIdle /\ RmIdle /\ MpIdle
InitXfSmp == SmpStart /\ ErIdle /\ XfSmpInit /\ RlIdle /\ RmIdle /\ MpIdle
InitRlSmp == SmpStart /\ ErIdle /\ XfIdle /\ RlSmpInit /\ RmIdle /\ MpIdle
InitSmp == InitErSmp \/ InitXfSmp \/ InitRlSmp
InitXfNew == SmpStart /\ ErIdle /\ XfNewInit /\ RlIdle /\ RmIdle /\ MpIdle
InitMpNew == SmpStart /\ ErIdle /\ XfIdle /\ RlIdle /\ RmIdle /\ MpNewInit
InitNewFlow == InitXfNew \/ InitMpNew
InitLv ==
    \/ Start /\ ErIdle /\ XfIdle /\ LvRlInit /\ RmIdle /\ MpIdle /\ SmpIdle
    \/ Start /\ LvErInit /\ XfIdle /\ RlIdle /\ RmIdle /\ MpIdle /\ SmpIdle
InitCrl ==
    /\ npk = 0 /\ pkt = 0 /\ verdict = NULL /\ note = {}
    /\ CrlInit /\ XfIdle /\ RlIdle /\ RmIdle /\ MpIdle /\ SmpIdle
InitCp == Start /\ CpInit /\ XfIdle /\ RlIdle /\ RmIdle /\ MpIdle /\ SmpIdle
InitEv == Start /\ EvInit /\ XfIdle /\ RmIdle /\ MpIdle /\ SmpIdle
Init ==
    \/ InitEr \/ InitXf \/ InitRl \/ InitRm \/ InitMp \/ InitSmp \/ InitCp
    \/ InitEv \/ InitNewFlow \/ InitCrl \/ InitLv

NextEr == ErPacket \/ Tick
NextRl == RlPacket \/ Tick
NextRlGate == RlPacket \/ RlGate \/ Tick
NextErXf == ErPacket \/ XfPacket \/ Tick
NextErRm == ErPacket \/ RmPacket \/ Tick
NextMp == MpPacket \/ Tick
NextCp == ErPacket \/ CpUpsert \/ Tick
NextEv == EvPacket \/ Tick
NextSmp ==
    \E i \in CPUs :
        \/ ErCpuStart(i) \/ ErCpuStep(i) \/ ErCpuStats(i)
        \/ XfCpuStart(i) \/ XfCpuStep(i)
        \/ RlCpuStart(i) \/ RlCpuStep(i)
NextNewFlow ==
    \E i \in CPUs :
        \/ XfCpuStart(i) \/ XfCpuStep(i)
        \/ MpCpuStart(i) \/ MpCpuStep(i)
NextLv == LvTick \/ \E p \in LvSrcs : LvRlPacket(p) \/ LvErPacket(p)
Next ==
    \/ NextNewFlow \/ CrlCall \/ NextLv
    \/ ErPacket \/ XfPacket \/ RlPacket \/ RmPacket \/ MpPacket \/ Tick
    \/ NextSmp \/ CpUpsert \/ EvPacket \/ RlGate

\* one interface with enhanced_rules.c attached
SpecEr == InitEr /\ [][NextEr]_vars
\* one interface with rate_limit.c attached
SpecRl == InitRl /\ [][NextRl]_vars
\* enhanced_rules.c or xdp_filter.c attached
SpecErXf == (InitEr \/ InitXf) /\ [][NextErXf]_vars
\* enhanced_rules.c, xdp_filter.c or rate_limit.c attached
NextErXfRl == ErPacket \/ XfPacket \/ RlPacket \/ Tick
SpecErXfRl == (InitEr \/ InitXf \/ InitRl) /\ [][NextErXfRl]_vars
\* enhanced_rules.c or rule_matcher.bpf.c attached
SpecErRm == (InitEr \/ InitRm) /\ [][NextErRm]_vars
\* marchproxy.c attached to the TC ingress hook
SpecMp == InitMp /\ [][NextMp]_vars
\* enhanced_rules.c attached while the loader writes services_map
SpecCp == InitCp /\ [][NextCp]_vars
\* rate_limit.c attached, the control plane switching it on and off
SpecRlGate == InitRl /\ [][NextRlGate]_vars
\* envoy_xdp.c attached
SpecEv == InitEv /\ [][NextEv]_vars
\* enhanced_rules.c attached, on one CPU or on several
NextErSmp ==
    \/ ErPacket \/ Tick
    \/ \E i \in CPUs : ErCpuStart(i) \/ ErCpuStep(i) \/ ErCpuStats(i)
SpecErSmp == (InitEr \/ InitErSmp) /\ [][NextErSmp]_vars
\* xdp_filter.c or marchproxy.c on several CPUs, the first packets of a flow
SpecNewFlow == InitNewFlow /\ [][NextNewFlow]_vars
\* one call of check_rate_limit of enhanced_rules.c
SpecCrl == InitCrl /\ [][CrlCall]_vars
\* rate_limit.c or enhanced_rules.c attached, traffic without end
SpecLv == InitLv /\ [][NextLv]_vars
\* the same where the clock keeps advancing and every source keeps sending
SpecLvFair ==
    /\ SpecLv
    /\ WF_vars(LvTick)
    /\ \A p \in LvSrcs : WF_vars(LvPacket(p))
\* one program on several CPUs at once
SpecSmp == InitSmp /\ [][NextSmp]_vars
\* any of the five programs attached, on one CPU or on several
Spec == Init /\ [][Next]_vars

---------------------------------------------------------------------------
(* Properties *)

\* a packet was processed by the step
PacketStep == npk' = npk + 1

\* what the sender put on the wire arrived whole
Whole(p) ==
    LET r == Packets[p]
    IN  r.buf = Frame(r.etype, r.ihl, r.proto, r.saddr, r.daddr, r.sport,
                      r.dport, r.doff, r.payload)

\* the transport headers each program parses, with their sizes
ErParsed == (PROTO_TCP :> TCP_HLEN) @@ (PROTO_UDP :> UDP_HLEN) @@ (PROTO_ICMP :> ICMP_HLEN)
XfParsed == (PROTO_TCP :> TCP_HLEN) @@ (PROTO_UDP :> UDP_HLEN)

IsIPv4(buf) == Len(buf) >= ETH_HLEN /\ buf[13] = 8 /\ buf[14] = 0
HasIpHdr(buf) == IsIPv4(buf) /\ Len(buf) >= ETH_HLEN + IP_HLEN
DeclaredIpLen(buf) == (buf[ETH_HLEN + 1] % 16) * 4

\* the buffer ends before the end of the Ethernet header, of the 20 bytes
\* of struct iphdr, or of the transport header of a protocol in parsed,
\* which starts where the IHL field says
CutShort(buf, parsed) ==
    \/ Len(buf) < ETH_HLEN
    \/ IsIPv4(buf) /\ Len(buf) < ETH_HLEN + IP_HLEN
    \/ /\ HasIpHdr(buf)
       /\ buf[ETH_HLEN + 10] \in DOMAIN parsed
       /\ Len(buf) < ETH_HLEN + DeclaredIpLen(buf) + parsed[buf[ETH_HLEN + 10]]

\* the same, or the buffer ends before the end of the IPv4 header the IHL
\* field declares (options included)
CutShortDeclared(buf, parsed) ==
    \/ CutShort(buf, parsed)
    \/ HasIpHdr(buf) /\ Len(buf) < ETH_HLEN + DeclaredIpLen(buf)

\* declared: the IPv4 header is the one the IHL field declares
MalformedDropped(declared) ==
    LET cut(buf, parsed) == IF declared THEN CutShortDeclared(buf, parsed)
                            ELSE CutShort(buf, parsed)
    IN
    /\ (PacketStep /\ prog = "er" /\ cut(Packets[pkt'].buf, ErParsed))
        => /\ verdict' = XDP_DROP
           /\ stats_map'.invalid_packets = stats_map.invalid_packets + 1
    /\ (PacketStep /\ prog = "xf" /\ cut(Packets[pkt'].buf, XfParsed))
        => /\ verdict' = XDP_DROP
           /\ xf_stats_map'.malformed_packets = xf_stats_map.malformed_packets + 1

Wellformed(p, protocols) ==
    /\ Whole(p)
    /\ Packets[p].etype = ETH_P_IP
    /\ Packets[p].proto \in protocols

\* rules_map holds a drop rule for the destination of packet p (the rules
\* of the tables above match any source and a destination host)
ErDropRuleMatches(p) ==
    /\ Wellformed(p, {PROTO_TCP, PROTO_UDP})
    /\ \E id \in DOMAIN rules_map :
        /\ rules_map[id].action = ACTION_DROP
        /\ rules_map[id].dst_ip = inet_addr(Packets[p].daddr)
        /\ rules_map[id].protocol \in {0, Packets[p].proto}
        /\ Packets[p].dport >= rules_map[id].dst_port_start
        /\ Packets[p].dport <= rules_map[id].dst_port_end

\* service_rules of rule_matcher.bpf.c holds a drop rule (action 0) for the
\* destination address, port and protocol of packet p
RmDropRuleMatches(p) ==
    /\ Wellformed(p, {PROTO_TCP, PROTO_UDP})
    /\ \E id \in DOMAIN rm_service_rules :
        /\ rm_service_rules[id].action = 0
        /\ rm_service_rules[id].ip_addr = inet_addr(Packets[p].daddr)
        /\ rm_service_rules[id].port = bpf_htons(Packets[p].dport)
        /\ rm_service_rules[id].protocol = Packets[p].proto

\* C2: a packet whose destination matches a configured rule with
\* action=drop gets verdict DROP, in process_packet (rules in rules_map)
\* and in rule_matcher_xdp (rules in service_rules), whatever the state of
\* the rate limiter, of the auth tokens and of the matched service.
C2_DropRuleDrops ==
    (/\ npk > 0
     /\ \/ prog = "er" /\ ErDropRuleMatches(pkt)
        \/ prog = "rm" /\ RmDropRuleMatches(pkt))
    => verdict = XDP_DROP

\* rate_limit.c: the source address of packet p as the limiter keys it
RlSrc(p) == inet_addr(Packets[p].saddr)
RlCapacity == rate_limit_config_map.per_ip_pps_limit + rate_limit_config_map.burst_allowance

\* C3: per-source bucket of rate_limit.c with per_ip_pps_limit = R > 0 and
\* burst_allowance = B: of the packets of one source that reach the
\* per-source check and arrive less than window_size_ns after the first of
\* them, the first R+B are admitted and the (R+B+1)-th and every later one
\* are dropped.
C3_BucketAdmitsRPlusB ==
    (prog = "rl" /\ "ip" \in note)
    => ((verdict = XDP_PASS) <=> (rl_win[RlSrc(pkt)].n <= RlCapacity))

\* C3 witness: with a burst allowance, a source sent two packets more than
\* R+B within one window and the last one was dropped
C3_Witness ==
    /\ prog = "rl" /\ "ip" \in note
    /\ rate_limit_config_map.burst_allowance > 0
    /\ rl_win[RlSrc(pkt)].n = RlCapacity + 2
    /\ verdict = XDP_DROP

\* C4: the first packet of a source that arrives window_size_ns or more
\* after its window started is admitted, packet_count restarts at 1 and
\* burst_tokens is restored to burst_allowance; a further R+B-1 packets of
\* the new window are admitted.
C4_RefillAfterWindow ==
    (prog = "rl" /\ "ip" \in note)
    => LET w == rl_win[RlSrc(pkt)]
           state == ip_rate_state_map[RlSrc(pkt)]
       IN  /\ w.n = 1 =>
                /\ verdict = XDP_PASS
                /\ state.packet_count = 1
                /\ state.burst_tokens = rate_limit_config_map.burst_allowance
                /\ state.last_update_ns = w.start
           /\ (w.refilled /\ w.n <= RlCapacity) => verdict = XDP_PASS

\* C4 witness: a source whose bucket was exhausted in the window before had
\* its (R+B)-th packet of the new window admitted by a burst token
C4_Witness ==
    /\ prog = "rl" /\ "ip" \in note
    /\ rate_limit_config_map.burst_allowance > 0
    /\ rl_win[RlSrc(pkt)].refilled
    /\ rl_win[RlSrc(pkt)].n = RlCapacity
    /\ verdict = XDP_PASS

\* enhanced_rules.c: the key of the service process_packet matched for
\* packet p, 0 when the packet did not get to a service
ErMatched(p) ==
    LET h == er_parse(Packets[p].buf)
    IN  IF h.out = "ok"
        THEN er_find_service(services_map, 1, h.dst_ip, h.dst_port, h.protocol)
        ELSE 0

\* C5: at the return of every call check_rate_limit(key, limit_pps) the
\* tokens of the entry of key are in [0, limit_pps], services that share a
\* source address under different rate_limit_pps included.
C5_TokensWithinLimit ==
    (prog = "er" /\ "rate_limit" \in note)
    => LET entry == rate_limit_map[inet_addr(Packets[pkt].saddr)]
       IN  /\ entry.tokens >= 0
           /\ entry.tokens <= services_map[ErMatched(pkt)].rate_limit_pps

\* the connection table of the program attached, and the key and the
\* time of last use it keeps for a flow
ConnKey(p) ==
    IF prog = "er"
    THEN LET h == er_parse(Packets[p].buf)
         IN  hash_connection(h.src_ip, h.dst_ip, h.src_port, h.dst_port, h.protocol)
    ELSE LET h == xf_parse(Packets[p].buf)
         IN  calc_connection_hash(h.src_ip, h.dst_ip, h.src_port, h.dst_port,
                                  h.protocol)
LastUse(entry) == IF prog = "er" THEN entry.last_activity ELSE entry.timestamp

\* old, new: the table before and after a step
EvictsLeastRecentlyUsed(old, new) ==
    LET k == ConnKey(pkt')
        gone == DOMAIN old.tab \ DOMAIN new.tab
    IN  /\ Cardinality(DOMAIN new.tab) <= ConnCap
        /\ (/\ PacketStep /\ "conntrack" \in note'
            /\ k \notin DOMAIN old.tab
            /\ Cardinality(DOMAIN old.tab) = ConnCap)
           => /\ k \in DOMAIN new.tab
              /\ Cardinality(DOMAIN new.tab) = ConnCap
              /\ gone = {Head(old.lru)}
              /\ \A x \in DOMAIN old.tab :
                    LastUse(old.tab[Head(old.lru)]) <= LastUse(old.tab[x])
              /\ \A x \in DOMAIN old.tab \ gone : new.tab[x] = old.tab[x]

C7_GlobalRejectSkipsPerSource ==
    [][(PacketStep /\ prog = "rl")
       => /\ "global_drop" \in note'
              => /\ "global" \in note' /\ "ip" \notin note'
                 /\ verdict' = XDP_DROP
                 /\ ip_rate_state_map' = ip_rate_state_map
          /\ ("ip" \in note' /\ rate_limit_config_map.global_pps_limit > 0)
              => /\ "global" \in note'
                 /\ global_rate_state_map'.total_packets
                        = global_rate_state_map.total_packets + 1
                 /\ global_rate_state_map'.dropped_packets
                        = global_rate_state_map.dropped_packets]_vars

\* C7 witness: the global check rejected a packet of a source that has a
\* per-source entry, with the per-source limit configured
C7_Witness ==
    /\ prog = "rl" /\ "global_drop" \in note
    /\ rate_limit_config_map.per_ip_pps_limit > 0
    /\ RlSrc(pkt) \in DOMAIN ip_rate_state_map
    /\ verdict = XDP_DROP

\* packet p carries, 20 bytes after an "Auth" marker in its payload, a
\* token that auth_tokens_map holds, not expired at time t and issued for
\* service_id or for every service (0)
ValidToken(p, service_id, t) ==
    LET payload == Packets[p].payload
    IN  /\ Whole(p)
        /\ \E i \in 1..Len(payload) :
            /\ i + 23 <= Len(payload)
            /\ SubSeq(payload, i, i + 3) = <<Chr_A, Chr_u, Chr_t, Chr_h>>
            /\ LET hash == TokenHash(SubSeq(payload, i + 20, i + 23))
               IN  /\ hash \in DOMAIN auth_tokens_map
                   /\ t <= auth_tokens_map[hash].expiry_time
                   /\ auth_tokens_map[hash].service_id \in {0, service_id}

\* C8: for a service with auth_type == simple, check_authentication accepts
\* a packet if and only if it carries a token found in auth_tokens_map, not
\* expired, of service 0 or of the requesting service; every other packet
\* is dropped by process_packet with auth_failures incremented by 1.
C8_AcceptIffValidToken ==
    [][(PacketStep /\ prog = "er" /\ "auth" \in note')
       => /\ ("drop_auth_failure" \notin note')
                <=> ValidToken(pkt', ErMatched(pkt'), now)
          /\ "drop_auth_failure" \in note'
                => /\ verdict' = XDP_DROP
                   /\ stats_map'.auth_failures = stats_map.auth_failures + 1]_vars

\* C9: a packet that ends with verdict DROP leaves the connection table as
\* it was, in process_packet and in xdp_marchproxy_filter.
C9_DropLeavesTableUnchanged ==
    [][(PacketStep /\ verdict' = XDP_DROP)
       => /\ connection_map' = connection_map
          /\ connection_table' = connection_table]_vars

\* packet p is well formed and the service process_packet matches for it
\* has requires_tls set
TlsServiceMatches(p) ==
    /\ Wellformed(p, DOMAIN ErParsed)
    /\ ErMatched(p) # 0
    /\ services_map[ErMatched(p)].requires_tls # 0

\* C10: for every well-formed packet that matches a service with
\* requires_tls set and is rejected neither by the rate limiter nor by the
\* auth checker, process_packet returns the slow-path redirect, counted in
\* redirected_go, and not PASS, whatever the payload is.
C10_TlsRedirects ==
    [][(/\ PacketStep /\ prog = "er"
        /\ TlsServiceMatches(pkt')
        /\ "drop_rate_limited" \notin note'
        /\ "drop_auth_failure" \notin note')
       => /\ verdict' = XDP_REDIRECT
          /\ stats_map'.redirected_go = stats_map.redirected_go + 1
          /\ stats_map'.passed_packets = stats_map.passed_packets]_vars

\* C10 witness: a TCP SYN without payload to port 80 of a TLS service was
\* redirected
C10_Witness ==
    /\ prog = "er" /\ npk > 0
    /\ TlsServiceMatches(pkt)
    /\ Packets[pkt].payload = <<>> /\ Packets[pkt].dport = 80
    /\ verdict = XDP_REDIRECT
    /\ stats_map.redirected_go = 1 /\ stats_map.passed_packets = 0

\* packet p is well formed and the service process_packet matches for it
\* has auth_type == complex
ComplexAuthServiceMatches(p) ==
    /\ Wellformed(p, DOMAIN ErParsed)
    /\ ErMatched(p) # 0
    /\ services_map[ErMatched(p)].auth_type = AUTH_COMPLEX

\* C11: a packet that matches a service with auth_type == complex and is
\* not rejected by the rate limiter gets the slow-path redirect, counted in
\* redirected_go, and check_authentication is not evaluated for it.
C11_ComplexAuthRedirects ==
    [][(/\ PacketStep /\ prog = "er"
        /\ ComplexAuthServiceMatches(pkt')
        /\ "drop_rate_limited" \notin note')
       => /\ verdict' = XDP_REDIRECT
          /\ "auth" \notin note'
          /\ stats_map'.auth_failures = stats_map.auth_failures
          /\ stats_map'.redirected_go = stats_map.redirected_go + 1]_vars

\* C11 witness: a packet with a 32-byte payload that holds no token, to a
\* service with complex authentication, was redirected after an earlier
\* packet of the same source was admitted by the rate limiter
C11_Witness ==
    /\ prog = "er" /\ npk > 1
    /\ ComplexAuthServiceMatches(pkt)
    /\ Len(Packets[pkt].payload) = 32
    /\ ~ValidToken(pkt, ErMatched(pkt), now)
    /\ "rate_limit" \in note
    /\ verdict = XDP_REDIRECT

\* packet p is well formed and process_packet finds no service for it
NoServiceMatches(p) ==
    /\ Wellformed(p, DOMAIN ErParsed)
    /\ ErMatched(p) = 0

\* C12: a well-formed IPv4 TCP/UDP/ICMP packet that matches no configured
\* service is redirected to the slow path and counted in redirected_go, not
\* in passed_packets.
C12_NoServiceRedirects ==
    [][(PacketStep /\ prog = "er" /\ NoServiceMatches(pkt'))
       => /\ verdict' = XDP_REDIRECT
          /\ stats_map'.redirected_go = stats_map.redirected_go + 1
          /\ stats_map'.passed_packets = stats_map.passed_packets]_vars

\* the TCP payload of packet p starts with a TLS record header
TlsRecordHeader(p) ==
    LET payload == Packets[p].payload
    IN  /\ Packets[p].proto = PROTO_TCP
        /\ Len(payload) >= 5
        /\ payload[1] \in {22, 23}
        /\ payload[2] = 3
        /\ payload[3] \in 1 .. 4

\* C13: an admitted packet (matched to a service, dropped neither by the
\* rate limiter nor by authentication) whose TCP payload starts with a TLS
\* record header is redirected to the slow path on any destination port and
\* never passed.
C13_TlsRecordRedirects ==
    [][(/\ PacketStep /\ prog = "er"
        /\ Wellformed(pkt', {PROTO_TCP})
        /\ ErMatched(pkt') # 0
        /\ TlsRecordHeader(pkt')
        /\ "drop_rate_limited" \notin note'
        /\ "drop_auth_failure" \notin note')
       => verdict' = XDP_REDIRECT]_vars

\* the IP protocols each program classifies (xdp_rate_limiter counts every
\* IPv4 packet, whatever its protocol)
Handled ==
    [er |-> DOMAIN ErParsed, xf |-> DOMAIN XfParsed, rl |-> 0 .. 255]

\* the frame has an EtherType and it is not IPv4
NonIPv4(buf) == Len(buf) >= ETH_HLEN /\ ~IsIPv4(buf)

\* the frame is IPv4, its protocol byte arrived, and the program prog does
\* not handle that protocol
UnhandledProtocol(buf) ==
    /\ IsIPv4(buf)
    /\ Len(buf) >= ETH_HLEN + 10
    /\ buf[ETH_HLEN + 10] \notin Handled[prog]

\* the 20 bytes of the IPv4 header arrived and its IHL is at least 5
ValidIpHdr(buf) == HasIpHdr(buf) /\ DeclaredIpLen(buf) >= IP_HLEN

C15_IngressNeverShootsUnclassified ==
    (/\ prog = "mp" /\ npk > 0
     /\ \/ NonIPv4(Packets[pkt].buf)
        \/ /\ Whole(pkt) /\ ValidIpHdr(Packets[pkt].buf)
           /\ Packets[pkt].proto \notin {PROTO_TCP, PROTO_UDP, PROTO_ICMP})
    => verdict # TC_ACT_SHOT

\* no CPU is inside the program
AllCpusIdle == \A i \in CPUs : cpus[i].pc = "idle"

\* the entry of the flow the CPUs process, in connection_map and in
\* connection_table
ErSmpConn == connection_map.tab[CHOOSE k \in DOMAIN connection_map.tab : TRUE]
XfSmpConn == connection_table.tab[CHOOSE k \in DOMAIN connection_table.tab : TRUE]

\* C16: when packets of one tracked flow are processed on several CPUs at
\* once, after all of them completed update_connection_tracking the packet
\* counter of the entry has increased by the number of the packets and
\* (enhanced_rules.c) the byte counter by the sum of their lengths.
C16_FlowCountersLinearizable ==
    /\ (prog = "er_smp" /\ AllCpusIdle)
       => /\ ErSmpConn.packets_rx = 1 + smp_obs.tracked
          /\ ErSmpConn.bytes_rx = Len(Packets[12].buf) + smp_obs.bytes
    /\ (prog = "xf_smp" /\ AllCpusIdle)
       => XfSmpConn.packets = 1 + smp_obs.tracked

\* the bucket of the source of the flow in rate_limit_map
ErSmpBucket == rate_limit_map[inet_addr(Packets[12].saddr)]

\* C17 (rate_limit.c, per source): the packets of one source that
\* check_ip_rate_limit admits at one instant on several CPUs are at most
\* per_ip_pps_limit + burst_allowance
IpAdmissionBounded ==
    prog = "rl_smp"
    => smp_obs.ip_admitted <= rate_limit_config_map.per_ip_pps_limit
                              + rate_limit_config_map.burst_allowance

\* C17 (rate_limit.c, global): the packets check_global_rate_limit admits
\* at one instant are at most global_pps_limit
GlobalAdmissionBounded ==
    prog = "rl_smp"
    => smp_obs.global_admitted <= rate_limit_config_map.global_pps_limit

\* C17 (enhanced_rules.c): without refill (the first packet left
\* rate_limit_pps - 1 = 1 token at time 0 and no time has passed) every
\* packet check_rate_limit admitted took one token out of the bucket
OneTokenPerAdmission ==
    (/\ prog = "er_smp" /\ AllCpusIdle /\ now = 0
     /\ services_map[1].rate_limit_pps > 0)
    => ErSmpBucket.tokens + smp_obs.admitted = services_map[1].rate_limit_pps - 1

\* C17: the rate limiters do not over-admit when the packets of one source
\* are processed on several CPUs at once: check_ip_rate_limit admits at
\* most per_ip_pps_limit + burst_allowance of them in one window,
\* check_global_rate_limit at most global_pps_limit, and in check_rate_limit
\* every admitted packet consumes one token of the shared bucket.
C17_NoOverAdmission ==
    IpAdmissionBounded /\ GlobalAdmissionBounded /\ OneTokenPerAdmission

\* the counters of rate_limit_stats_map
RlStatCounters ==
    {"total_packets", "passed_packets", "dropped_packets", "global_drops",
     "per_ip_drops"}

\* C18: under every interleaving of update_stats calls from several CPUs no
\* counter of rate_limit_stats_map ever decreases, and once no packet is in
\* flight total_packets equals the number of update_stats calls made.
C18_StatsTolerateConcurrency ==
    [][prog = "rl_smp"
       => /\ \A f \in RlStatCounters :
                rate_limit_stats_map'[f] >= rate_limit_stats_map[f]
          /\ (\A i \in CPUs : cpus'[i].pc = "idle")
             => rate_limit_stats_map'.total_packets = smp_obs'.stat_calls]_vars

\* rate_limit.c: the drops the per-source limiter recorded in the entry of
\* source src of map ipm
IpDrops(ipm, src) == IF src \in DOMAIN ipm THEN ipm[src].dropped_packets ELSE 0

\* C19: for every packet xdp_rate_limiter drops, dropped_packets increases
\* by 1 and exactly one cause counter increases by 1: global_drops iff the
\* global limiter rejected the packet, per_ip_drops iff the per-source
\* limiter rejected it; for an admitted packet no cause counter changes.
C19_DropCauseCounted ==
    [][(PacketStep /\ prog = "rl")
       => LET by_global == global_rate_state_map'.dropped_packets
                             = global_rate_state_map.dropped_packets + 1
              by_ip == IpDrops(ip_rate_state_map', RlSrc(pkt'))
                         = IpDrops(ip_rate_state_map, RlSrc(pkt')) + 1
              d_dropped == rate_limit_stats_map'.dropped_packets
                             - rate_limit_stats_map.dropped_packets
              d_global == rate_limit_stats_map'.global_drops
                            - rate_limit_stats_map.global_drops
              d_ip == rate_limit_stats_map'.per_ip_drops
                        - rate_limit_stats_map.per_ip_drops
          IN  IF verdict' = XDP_DROP
              THEN /\ d_dropped = 1
                   /\ d_global + d_ip = 1
                   /\ d_global = 1 <=> by_global
                   /\ d_ip = 1 <=> by_ip
              ELSE d_dropped = 0 /\ d_global = 0 /\ d_ip = 0]_vars

\* C19 witness: with both limits configured, a packet was dropped by the
\* per-source limiter and another by the global limiter, each counted once
\* under its own cause
C19_Witness ==
    /\ prog = "rl" /\ verdict = XDP_DROP
    /\ rate_limit_stats_map.per_ip_drops >= 1
    /\ rate_limit_stats_map.global_drops >= 1
    /\ rate_limit_stats_map.dropped_packets
         = rate_limit_stats_map.per_ip_drops + rate_limit_stats_map.global_drops

\* C20: a zero rate disables a limiter scope.  With global_pps_limit = 0
\* xdp_rate_limiter rejects no packet by the global scope and leaves
\* global_rate_state_map alone; with per_ip_pps_limit = 0 it rejects none
\* by the per-source scope and leaves ip_rate_state_map alone; for a
\* service with rate_limit_pps = 0 process_packet drops no packet as
\* rate-limited and leaves rate_limit_map alone.
C20_ZeroRateDisablesScope ==
    [][PacketStep
       => /\ (prog = "rl" /\ rate_limit_config_map.global_pps_limit = 0)
             => /\ "global" \notin note' /\ "global_drop" \notin note'
                /\ rate_limit_stats_map'.global_drops
                     = rate_limit_stats_map.global_drops
                /\ global_rate_state_map' = global_rate_state_map
          /\ (prog = "rl" /\ rate_limit_config_map.per_ip_pps_limit = 0)
             => /\ "ip" \notin note' /\ "ip_drop" \notin note'
                /\ rate_limit_stats_map'.per_ip_drops
                     = rate_limit_stats_map.per_ip_drops
                /\ ip_rate_state_map' = ip_rate_state_map
          /\ (/\ prog = "er" /\ ErMatched(pkt') # 0
              /\ services_map[ErMatched(pkt')].rate_limit_pps = 0)
             => /\ "rate_limit" \notin note'
                /\ "drop_rate_limited" \notin note'
                /\ stats_map'.rate_limited = stats_map.rate_limited
                /\ rate_limit_map' = rate_limit_map]_vars

\* C20 witness: with the global scope disabled the per-source limiter
\* dropped the third packet or a later one, and global_rate_state_map is as
\* it was when the program was loaded
C20_Witness ==
    /\ prog = "rl" /\ npk >= 3
    /\ rate_limit_config_map.global_pps_limit = 0
    /\ verdict = XDP_DROP /\ "ip_drop" \in note
    /\ global_rate_state_map = RlGlobal0


\* the outcome counters of process_packet
OutcomeCounters == {"passed_packets", "dropped_packets", "redirected_go"}

\* the outcome counter that goes with a verdict
OutcomeCounter(v) ==
    IF v = XDP_PASS THEN "passed_packets"
    ELSE IF v = XDP_DROP THEN "dropped_packets"
    ELSE "redirected_go"

\* C21: process_packet ends every packet with one verdict of PASS, DROP or
\* the redirect to the AF_XDP map, adds 1 to exactly one of passed_packets,
\* dropped_packets, redirected_go (the one of the verdict), and runs no
\* stage behind the one that gave the verdict: a packet dropped as invalid
\* or passed unmatched touches no table, a rate-limited packet is neither
\* tracked nor authenticated, a packet that failed authentication is not
\* classified.
C21_OneVerdictOneCounter ==
    [][(PacketStep /\ prog = "er")
       => /\ verdict' \in {XDP_PASS, XDP_DROP, XDP_REDIRECT}
          /\ stats_map'.total_packets = stats_map.total_packets + 1
          /\ \A f \in OutcomeCounters :
                stats_map'[f] = stats_map[f]
                                + (IF f = OutcomeCounter(verdict') THEN 1 ELSE 0)
          /\ Cardinality(note' \cap {"drop_invalid", "pass_simple",
                 "drop_rate_limited", "drop_auth_failure", "complex", "fast"}) = 1
          /\ (note' \cap {"drop_invalid", "pass_simple"} # {}
                => /\ note' \subseteq {"drop_invalid", "pass_simple", "no_service"}
                   /\ services_map' = services_map
                   /\ rate_limit_map' = rate_limit_map
                   /\ connection_map' = connection_map)
          /\ ("drop_rate_limited" \in note'
                => /\ note' = {"service", "rate_limit", "drop_rate_limited"}
                   /\ connection_map' = connection_map
                   /\ stats_map'.auth_failures = stats_map.auth_failures)
          /\ ("drop_auth_failure" \in note'
                => /\ verdict' = XDP_DROP
                   /\ stats_map'.redirected_go = stats_map.redirected_go)]_vars

\* C21 witness: three packets ended with the three verdicts, the last one
\* dropped as invalid
C21_Witness ==
    /\ prog = "er" /\ npk = 3
    /\ stats_map.total_packets = 3
    /\ stats_map.passed_packets = 1
    /\ stats_map.redirected_go = 1
    /\ stats_map.dropped_packets = 1
    /\ verdict = XDP_DROP /\ "drop_invalid" \in note

\* the keys in 1..MAX_SERVICES whose service matches packet p: the address,
\* the port range (for ICMP the type stands for the port) and the protocol
MatchingServices(p) ==
    {k \in DOMAIN services_map \cap (1..ServiceSlots) :
        /\ services_map[k].ip_addr = inet_addr(Packets[p].daddr)
        /\ services_map[k].port_start <= Packets[p].dport
        /\ Packets[p].dport <= services_map[k].port_end
        /\ (services_map[k].protocol = 0
            \/ services_map[k].protocol = Packets[p].proto)}

\* the service with key k, and no other, counted the packet of the step
ServiceCounted(k) ==
    \A j \in DOMAIN services_map :
        services_map'[j].packet_count
            = services_map[j].packet_count + (IF j = k THEN 1 ELSE 0)

\* C22: process_packet matches a packet to a service exactly when a service
\* under a key in 1..MAX_SERVICES has the packet's destination address, a
\* port range that holds its destination port and protocol 0 or the
\* packet's; of several such services the one with the lowest key is
\* selected (it counts the packet), and without one no service is.
C22_LowestMatchingService ==
    [][(PacketStep /\ prog = "er" /\ Wellformed(pkt', DOMAIN ErParsed))
       => LET M == MatchingServices(pkt')
          IN  IF M = {}
              THEN "no_service" \in note' /\ services_map' = services_map
              ELSE \E k \in M :
                      /\ \A j \in M : k <= j
                      /\ "service" \in note'
                      /\ DOMAIN services_map' = DOMAIN services_map
                      /\ ServiceCounted(k)]_vars

\* C22 witness: two services matched a UDP packet and the one with the
\* lower key took it
C22_Witness ==
    /\ prog = "er" /\ npk = 1
    /\ Wellformed(pkt, {PROTO_UDP})
    /\ MatchingServices(pkt) = {1, 2}
    /\ services_map[1].packet_count = 1
    /\ services_map[2].packet_count = 0

\* the ids in 1..MAX_MAPPINGS whose mapping allows the protocol and the
\* destination port of packet p
MatchingMappings(p) ==
    {k \in DOMAIN mappings_map \cap (1..MappingSlots) :
        /\ \/ Packets[p].proto = PROTO_TCP /\ mappings_map[k].protocols % 2 = 1
           \/ Packets[p].proto = PROTO_UDP /\ (mappings_map[k].protocols \div 2) % 2 = 1
        /\ \E i \in 1..mappings_map[k].port_count :
              mappings_map[k].ports[i] = Packets[p].dport}

\* the mapping of m to prefer: the highest priority, then the lowest id
Preferred(m) ==
    CHOOSE k \in m :
        \A j \in m : \/ mappings_map[k].priority > mappings_map[j].priority
                     \/ /\ mappings_map[k].priority = mappings_map[j].priority
                        /\ k <= j

\* what marchproxy_ingress does with a packet under mapping k
MappingOutcome(k) ==
    LET dest == find_dest_service(mappings_map[k], mp_services_map)
    IN  IF dest = 0 THEN "no_dest_service"
        ELSE IF \/ mappings_map[k].auth_required # 0
                \/ mp_services_map[dest].auth_required # 0 THEN "fallback"
        ELSE "forwarded"

\* C23: of several mappings that match a packet, marchproxy_ingress applies
\* the one with the highest priority and, among equal priorities, the one
\* with the lowest id.
C23_HighestPriorityApplied ==
    (/\ prog = "mp" /\ npk > 0
     /\ Wellformed(pkt, {PROTO_TCP, PROTO_UDP})
     /\ MatchingMappings(pkt) # {})
    => MappingOutcome(Preferred(MatchingMappings(pkt))) \in note

\* the 5-tuple the program attached parsed from packet p
ConnTuple(p) ==
    LET h == IF prog = "er" THEN er_parse(Packets[p].buf) ELSE xf_parse(Packets[p].buf)
    IN  [src_ip |-> h.src_ip, dst_ip |-> h.dst_ip, src_port |-> h.src_port,
         dst_port |-> h.dst_port, protocol |-> h.protocol]

\* the 5-tuple a connection entry stores
EntryTuple(entry) ==
    [src_ip |-> entry.src_ip, dst_ip |-> entry.dst_ip, src_port |-> entry.src_port,
     dst_port |-> entry.dst_port, protocol |-> entry.protocol]

\* the packet counter of a connection entry of the program attached
EntryPackets(entry) == IF prog = "er" THEN entry.packets_rx ELSE entry.packets

\* a miss creates the entry of the packet's 5-tuple with state new (0) and
\* one packet counted
TrackedOnMiss(old, new) ==
    (/\ PacketStep /\ "conntrack" \in note'
     /\ ConnKey(pkt') \notin DOMAIN old.tab)
    => /\ ConnKey(pkt') \in DOMAIN new.tab
       /\ EntryTuple(new.tab[ConnKey(pkt')]) = ConnTuple(pkt')
       /\ new.tab[ConnKey(pkt')].state = 0
       /\ EntryPackets(new.tab[ConnKey(pkt')]) = 1

\* a hit adds 1 to the packet counter and the packet length to the byte
\* counter, sets the time of last activity and leaves the rest alone
TrackedOnHit(old, new) ==
    (/\ PacketStep /\ "conntrack" \in note'
     /\ ConnKey(pkt') \in DOMAIN old.tab)
    => /\ ConnKey(pkt') \in DOMAIN new.tab
       /\ new.tab[ConnKey(pkt')] =
            IF prog = "er"
            THEN [old.tab[ConnKey(pkt')] EXCEPT
                    !.packets_rx = @ + 1,
                    !.bytes_rx = @ + Len(Packets[pkt'].buf),
                    !.last_activity = now]
            ELSE [old.tab[ConnKey(pkt')] EXCEPT
                    !.packets = @ + 1,
                    !.bytes = @ + Len(Packets[pkt'].buf),
                    !.timestamp = now]

\* C24: update_connection_tracking creates, on a miss, the entry of the
\* packet's 5-tuple with state new (0) and a packet counter of 1, and on a
\* hit adds 1 to the packet counter and the packet length to the byte
\* counter, sets the time of last activity to the current time and changes
\* no other field, in enhanced_rules.c and in xdp_filter.c.
C24_TrackingCreatesAndUpdates ==
    [][IF prog = "er"
       THEN /\ TrackedOnMiss(connection_map, connection_map')
            /\ TrackedOnHit(connection_map, connection_map')
       ELSE /\ TrackedOnMiss(connection_table, connection_table')
            /\ TrackedOnHit(connection_table, connection_table')]_vars

\* packet q is a reply to packet p: addresses and ports swapped
IsReply(q, p) ==
    /\ Wellformed(p, {PROTO_TCP, PROTO_UDP}) /\ Wellformed(q, {PROTO_TCP, PROTO_UDP})
    /\ Packets[q].proto = Packets[p].proto
    /\ Packets[q].saddr = Packets[p].daddr /\ Packets[q].daddr = Packets[p].saddr
    /\ Packets[q].sport = Packets[p].dport /\ Packets[q].dport = Packets[p].sport

\* C25: the connection key is directional: the key hash_connection
\* (enhanced_rules.c) and calc_connection_hash (xdp_filter.c) compute for a
\* tracked packet differs from the key they compute for a reply to it,
\* whenever the two addresses differ.
C25_KeyDirectional ==
    (prog \in {"er", "xf"} /\ npk > 0 /\ "conntrack" \in note)
    => \A q \in pkts :
          (IsReply(q, pkt) /\ Packets[pkt].saddr # Packets[pkt].daddr)
          => ConnKey(q) # ConnKey(pkt)

\* the packet of the step was counted in an entry that stores its 5-tuple,
\* created with one packet or one more than before, and no entry of
\* another 5-tuple changed
CountedInOwnEntry(old, new) ==
    (PacketStep /\ "conntrack" \in note')
    => /\ \E k \in DOMAIN new.tab :
            /\ EntryTuple(new.tab[k]) = ConnTuple(pkt')
            /\ EntryPackets(new.tab[k]) =
                 IF k \in DOMAIN old.tab THEN EntryPackets(old.tab[k]) + 1 ELSE 1
       /\ \A k \in DOMAIN new.tab \cap DOMAIN old.tab :
            EntryTuple(old.tab[k]) # ConnTuple(pkt') => new.tab[k] = old.tab[k]

\* C26: every entry of the connection table counts the tracked packets of
\* the 5-tuple it stores and no others: each tracked packet adds 1 to the
\* entry of its own 5-tuple (created with 1 when there is none) and leaves
\* the entries that store another 5-tuple as they are, in enhanced_rules.c
\* and in xdp_filter.c.
C26_EntryBelongsToOneFlow ==
    [][IF prog = "er"
       THEN CountedInOwnEntry(connection_map, connection_map')
       ELSE CountedInOwnEntry(connection_table, connection_table')]_vars

\* the step applied upsert u to services_map and nothing else happened
UpsertStep(u) ==
    /\ prog = "er_cp" /\ npk' = npk /\ now' = now
    /\ services_map' = update_service_rule_xdp(services_map, u.key, u.rule)

\* what packet p gets under the services table sm, the other maps as they
\* are after the step
OutcomeUnder(sm, p, junk) ==
    LET r == process_packet(Packets[p].buf, now', junk, sm, rate_limit_map',
                            connection_map', auth_tokens_map', stats_map')
    IN  <<r.verdict, r.note, r.sm>>

ServiceConfig(s) ==
    [service_id |-> s.service_id, ip_addr |-> s.ip_addr,
     port_start |-> s.port_start, port_end |-> s.port_end,
     protocol |-> s.protocol, auth_type |-> s.auth_type,
     requires_tls |-> s.requires_tls, allows_websocket |-> s.allows_websocket,
     rate_limit_pps |-> s.rate_limit_pps, bandwidth_limit |-> s.bandwidth_limit]

IsTlsRecord(payload) ==
    /\ Len(payload) >= 3
    /\ payload[1] \in {22, 23}
    /\ payload[2] = 3
    /\ payload[3] \in 1..4

\* C29: detect_tls returns true exactly for the payloads of 3 bytes or more
\* that start with a TLS record header, never for a shorter one; and
\* xdp_envoy_filter adds 1 to https_packets for a packet exactly when its
\* destination port is 443 or 8443 and detect_tls returned true for its
\* payload, and nothing otherwise.
C29_TlsDetected ==
    [][(PacketStep /\ prog = "ev" /\ pkt' <= NEvTls)
       => LET f == EvField(pkt')
              off == ETH_HLEN + IP_HLEN + TCP_HLEN
              counted == /\ "detect" \in note'
                         /\ f.dport \in {443, 8443}
                         /\ IsTlsRecord(f.payload)
          IN  /\ (detect_tls(EvBuf(pkt'), off) = 1) <=> IsTlsRecord(f.payload)
              /\ stats_map'.https_packets
                   = stats_map.https_packets + (IF counted THEN 1 ELSE 0)
              /\ "detect" \in note' <=> "rate_limited" \notin note']_vars

\* C29 witness: a 3-byte payload 0x17 0x03 0x04 to port 8443 was counted
\* after a 2-byte payload was not
C29_Witness ==
    /\ prog = "ev" /\ npk = 2
    /\ pkt <= NEvTls
    /\ EvField(pkt).dport = 8443
    /\ EvField(pkt).payload = <<23, 3, 4>>
    /\ stats_map.https_packets = 1
    /\ stats_map.total_packets = 2
    /\ stats_map.total_bytes = 2 * (ETH_HLEN + IP_HLEN + TCP_HLEN) + 5

\* the offsets (from data) of the bytes the "Auth" scan of
\* check_authentication reads, from position i on
RECURSIVE auth_scan_reads(_, _, _, _)
auth_scan_reads(buf, payload, i, junk) ==
    IF ~(i < 24 /\ payload + i + 8 < Len(buf)) THEN {}
    ELSE
        LET matched == \* the comparisons of the && chain that succeed
                IF Rd(buf, payload + i, junk) # Chr_A THEN 0
                ELSE IF Rd(buf, payload + i + 1, junk) # Chr_u THEN 1
                ELSE IF Rd(buf, payload + i + 2, junk) # Chr_t THEN 2
                ELSE IF Rd(buf, payload + i + 3, junk) # Chr_h THEN 3
                ELSE 4
        IN  IF matched = 4
            THEN ((payload + i)..(payload + i + 3))
                     \cup ((payload + i + 20)..(payload + i + 23))
            ELSE ((payload + i)..(payload + i + matched))
                     \cup auth_scan_reads(buf, payload, i + 1, junk)

\* the offsets of the bytes check_authentication reads from the packet
check_authentication_reads(buf, junk) ==
    LET tcp == ETH_HLEN + (Rd(buf, ETH_HLEN, junk) % 16) * 4
        payload == tcp + (Rd(buf, tcp + 12, junk) \div 16) * 4
        h_proto == {12, 13}
        protocol == {ETH_HLEN + 9}
        ihl == {ETH_HLEN}
        doff == {tcp + 12}
    IN
    IF ETH_HLEN > Len(buf) THEN {}
    ELSE IF LoadU16(buf, 12, junk) # bpf_htons(ETH_P_IP) THEN h_proto
    ELSE IF ETH_HLEN + IP_HLEN > Len(buf) THEN h_proto
    ELSE IF Rd(buf, ETH_HLEN + 9, junk) # PROTO_TCP THEN h_proto \cup protocol
    ELSE IF tcp + TCP_HLEN > Len(buf) THEN h_proto \cup protocol \cup ihl
    ELSE IF payload + 32 > Len(buf)
    THEN h_proto \cup protocol \cup ihl \cup doff
    ELSE h_proto \cup protocol \cup ihl \cup doff
             \cup auth_scan_reads(buf, payload, 0, junk)

\* the offsets of the bytes needs_complex_processing reads from the packet
needs_complex_processing_reads(buf, service, junk) ==
    LET tcp == ETH_HLEN + (Rd(buf, ETH_HLEN, junk) % 16) * 4
        payload == tcp + (Rd(buf, tcp + 12, junk) \div 16) * 4
        h_proto == {12, 13}
        protocol == {ETH_HLEN + 9}
        ihl == {ETH_HLEN}
        dest == {tcp + 2, tcp + 3}
        doff == {tcp + 12}
        hdrs == h_proto \cup protocol \cup ihl \cup dest \cup doff
    IN
    IF service.requires_tls # 0 THEN {}
    ELSE IF service.allows_websocket # 0 THEN {}
    ELSE IF service.auth_type = AUTH_COMPLEX THEN {}
    ELSE IF ETH_HLEN > Len(buf) THEN {}
    ELSE IF LoadU16(buf, 12, junk) # bpf_htons(ETH_P_IP) THEN h_proto
    ELSE IF ETH_HLEN + IP_HLEN > Len(buf) THEN h_proto
    ELSE IF Rd(buf, ETH_HLEN + 9, junk) # PROTO_TCP THEN h_proto \cup protocol
    ELSE IF tcp + TCP_HLEN > Len(buf) THEN h_proto \cup protocol \cup ihl
    ELSE IF bpf_ntohs(LoadU16(buf, tcp + 2, junk)) = 443
    THEN h_proto \cup protocol \cup ihl \cup dest
    ELSE IF payload + 6 > Len(buf) THEN hdrs
    ELSE IF Rd(buf, payload, junk) = 22
    THEN hdrs \cup {payload, payload + 1}
    ELSE IF Rd(buf, payload, junk) # Chr_G THEN hdrs \cup {payload}
    ELSE IF Rd(buf, payload + 1, junk) # Chr_E THEN hdrs \cup {payload, payload + 1}
    ELSE hdrs \cup {payload, payload + 1, payload + 2}

\* the offsets inside [data, data_end)
InBuffer(buf) == 0..(Len(buf) - 1)

\* C30: every byte check_authentication and needs_complex_processing read
\* from a packet (the headers, the scanned payload bytes and the 4-byte token
\* hash at offset i + 20 from the matched "Auth" pattern) lies inside
\* [data, data_end).
C30_NoReadBeyondBuffer ==
    [][(PacketStep /\ prog = "er")
       => LET buf == Packets[pkt'].buf
          IN  \A junk \in JunkBytes :
                /\ "auth" \in note'
                     => check_authentication_reads(buf, junk) \subseteq InBuffer(buf)
                /\ \A k \in DOMAIN services_map :
                     needs_complex_processing_reads(buf, services_map[k], junk)
                         \subseteq InBuffer(buf)]_vars

\* an IPv4 packet whose 20-byte header arrived and whose IHL field is below 5
ShortIhl(buf) == HasIpHdr(buf) /\ DeclaredIpLen(buf) < IP_HLEN

\* C31: an IPv4 packet whose IHL field is below 5 is dropped as malformed by
\* process_packet and by xdp_marchproxy_filter: the verdict is DROP, the
\* malformed counter (invalid_packets, resp. malformed_packets) grows by 1,
\* the packet is not matched against the services and no port is taken from
\* bytes inside the IP header.
C31_ShortIhlDropped ==
    [][(PacketStep /\ ShortIhl(Packets[pkt'].buf))
       => /\ prog = "er"
            => /\ verdict' = XDP_DROP
               /\ stats_map'.invalid_packets = stats_map.invalid_packets + 1
               /\ "service" \notin note'
               /\ services_map' = services_map
               /\ er_parse(Packets[pkt'].buf).out # "ok"
          /\ prog = "xf"
            => /\ verdict' = XDP_DROP
               /\ xf_stats_map'.malformed_packets = xf_stats_map.malformed_packets + 1
               /\ "conntrack" \notin note'
               /\ xf_parse(Packets[pkt'].buf).out = "malformed"]_vars

\* the key of connections_map for packet p (a whole TCP or UDP packet)
MpConnKey(p) ==
    LET buf == Packets[p].buf
        th == ETH_HLEN + DeclaredIpLen(buf)
    IN  <<LoadU32(buf, ETH_HLEN + 12, 0), LoadU32(buf, ETH_HLEN + 16, 0),
          bpf_ntohs(LoadU16(buf, th, 0)), bpf_ntohs(LoadU16(buf, th + 2, 0)),
          Rd(buf, ETH_HLEN + 9, 0)>>

\* a forwarded packet of a flow without entry arrives at the full table
NewFlowAtFullTable ==
    /\ PacketStep /\ prog = "mp" /\ "forwarded" \in note'
    /\ MpConnKey(pkt') \notin DOMAIN connections_map
    /\ Cardinality(DOMAIN connections_map) = ConnCap

\* C32: when a forwarded packet of a new flow arrives while connections_map
\* holds its maximum number of entries, the least recently used entry is
\* evicted, the new flow gets an entry with packets = 1 and the packet is
\* still forwarded.
C32_FullTableEvictsLru ==
    [][NewFlowAtFullTable
       => /\ verdict' = TC_ACT_OK
          /\ MpConnKey(pkt') \in DOMAIN connections_map'
          /\ connections_map'[MpConnKey(pkt')].packets = 1
          /\ \E old \in DOMAIN connections_map :
               /\ DOMAIN connections_map'
                    = (DOMAIN connections_map \ {old}) \cup {MpConnKey(pkt')}
               /\ \A k \in DOMAIN connections_map :
                    connections_map[old].timestamp <= connections_map[k].timestamp]_vars

\* C33: global scope of rate_limit.c with global_pps_limit = R > 0 and
\* burst_allowance = B: of the packets that reach the global check within
\* one window, the first R+B are admitted by check_global_rate_limit and the
\* (R+B+1)-th and every later one are rejected.
C33_GlobalAdmitsRPlusB ==
    (prog = "rl" /\ "global" \in note)
    => ("global_drop" \notin note
          <=> rl_win[RlGlobalKey].n <= rate_limit_config_map.global_pps_limit
                                        + rate_limit_config_map.burst_allowance)

\* the limiter is switched off: no licence, or the configuration disabled
RlGated == enterprise_license_map = 0 \/ rate_limit_config_map.enabled = 0

\* C34: whenever the licence value is 0 or the configuration has
\* enabled == 0, xdp_rate_limiter passes the packet and leaves
\* global_rate_state_map, ip_rate_state_map and rate_limit_stats_map
\* unchanged, whatever state the limiter accumulated before the flag was
\* cleared.
C34_GatedLimiterPasses ==
    [][(PacketStep /\ prog = "rl" /\ RlGated)
       => /\ verdict' = XDP_PASS
          /\ global_rate_state_map' = global_rate_state_map
          /\ ip_rate_state_map' = ip_rate_state_map
          /\ rate_limit_stats_map' = rate_limit_stats_map]_vars

\* C34 witness: after the limiter had dropped packets of a source and was
\* then disabled, a further packet of that source went through uncounted
C34_Witness ==
    /\ prog = "rl" /\ rate_limit_config_map.enabled = 0
    /\ enterprise_license_map = 1
    /\ pkt = 12 /\ verdict = XDP_PASS /\ note = {}
    /\ RlSrc(12) \in DOMAIN ip_rate_state_map
    /\ ip_rate_state_map[RlSrc(12)].dropped_packets > 0
    /\ rate_limit_stats_map.total_packets = npk - 1

\* the source address of packet p as envoy_xdp.c keys it
EvSrc(p) == LoadU32(EvBuf(p), ETH_HLEN + 12, 0)

\* a packet reached check_rate_limit with the limiter enabled
EvLimited == prog = "ev" /\ "rate_limit" \in note' /\ rate_limit_config_map.enabled # 0

\* C35: fixed-window limiter of envoy_xdp.c: of the packets of one source
\* within one window (a window ends when more than window_ns has passed
\* since it started), check_rate_limit admits the first max_packets and
\* drops the rest, for every max_packets, 0 and 1 included; each dropped
\* packet adds 1 to the source's dropped_count and to the rate_limited
\* statistic, an admitted packet adds nothing to them.
C35_FixedWindowAdmitsMax ==
    [][(PacketStep /\ EvLimited)
       => LET src == EvSrc(pkt')
              dropped == "rate_limited" \in note'
              before == IF src \in DOMAIN rate_limit_map
                        THEN rate_limit_map[src].dropped_count ELSE 0
          IN  /\ dropped <=> rl_win'[src].n > rate_limit_config_map.max_packets
              /\ dropped => verdict' = XDP_DROP
              /\ rate_limit_map'[src].dropped_count
                   = before + (IF dropped THEN 1 ELSE 0)
              /\ stats_map'.rate_limited
                   = stats_map.rate_limited + (IF dropped THEN 1 ELSE 0)]_vars

\* the rule lookup_service returns for packet p, <<>> for none
XfRuleFor(p) ==
    LET h == xf_parse(Packets[p].buf)
    IN  lookup_service(service_rules, h.dst_ip, h.dst_port, h.protocol)

\* rule r is configured for the destination address, destination port and
\* protocol of packet p
XfRuleIsFor(r, p) ==
    LET h == xf_parse(Packets[p].buf)
    IN  r.ip_addr = h.dst_ip /\ r.port = h.dst_port /\ r.protocol = h.protocol

\* C36: xdp_marchproxy_filter applies a service rule (drop, pass or
\* redirect) to a packet only if the rule's ip_addr, port and protocol equal
\* the packet's destination address, destination port and protocol.
C36_RuleOnlyForItsDestination ==
    (/\ prog = "xf" /\ npk > 0
     /\ note \cap {"rule_drop", "rule_pass", "rule_redirect"} # {})
    => /\ XfRuleFor(pkt) # <<>>
       /\ XfRuleIsFor(XfRuleFor(pkt)[1], pkt)

\* the relations between the counters of one stats_map entry
ErStatsBalanced(st) ==
    /\ st.total_packets = st.passed_packets + st.dropped_packets + st.redirected_go
    /\ st.rate_limited + st.auth_failures + st.invalid_packets <= st.dropped_packets

\* C37: whenever no packet is inside process_packet of enhanced_rules.c, on
\* one CPU or after any interleaving of several, total_packets equals
\* passed_packets + dropped_packets + redirected_go, and rate_limited +
\* auth_failures + invalid_packets is at most dropped_packets.
C37_StatsBalanced ==
    (prog = "er" \/ (prog = "er_smp" /\ AllCpusIdle))
    => ErStatsBalanced(stats_map)

\* the CPUs finished three packets, of which one was rate limited and one
\* was cut short
C37_Witness ==
    /\ prog = "er_smp" /\ AllCpusIdle
    /\ smp_obs.started = MaxSmpPackets
    /\ stats_map.rate_limited > 0
    /\ stats_map.invalid_packets > 0

\* the packet counter of the flow of SmpPkts in connection_table and in
\* connections_map, 0 without entry
NewFlowPackets ==
    IF prog = "xf_new"
    THEN IF DOMAIN connection_table.tab = {} THEN 0 ELSE XfSmpConn.packets
    ELSE IF DOMAIN connections_map = {} THEN 0
    ELSE connections_map[CHOOSE k \in DOMAIN connections_map : TRUE].packets

\* C38: when the first packets of a flow that is not tracked yet are
\* processed on several CPUs at once (xdp_filter.c and marchproxy.c), after
\* all of them completed the connection tracking the packet counter of the
\* flow's entry is the number of the packets: 2 after two packets.
C38_FirstPacketsCounted ==
    (prog \in {"xf_new", "mp_new"} /\ AllCpusIdle)
    => NewFlowPackets = smp_obs.tracked

\* the source's bucket, the limit and the time since the last update at a
\* call of check_rate_limit
CrlBucket == rate_limit_map[CrlKey]
CrlLimit == services_map[1].rate_limit_pps
CrlElapsed == now - CrlBucket.last_update

\* C39: for every elapsed time of at least one second and every
\* limit_pps > 0 the refill of check_rate_limit (enhanced_rules.c) fills
\* the bucket to limit_pps and sets last_update to now, so that the packet
\* is admitted and leaves limit_pps - 1 tokens: neither the product
\* time_diff * limit_pps, nor its cut to the 32-bit tokens_to_add, nor the
\* 32-bit sum tokens + tokens_to_add keeps the bucket below limit_pps or
\* skips the refill.
C39_RefillOverflowSafe ==
    [][(prog = "crl" /\ PacketStep /\ CrlElapsed >= TicksPerSec)
       => /\ verdict' = XDP_PASS
          /\ CrlBucket'.tokens = CrlLimit - 1
          /\ CrlBucket'.last_update = now]_vars

\* the last packet was one of source p and a rate limiter rejected it /
\* no rate limiter rejected it
LvRejected(p) ==
    pkt = p /\ note \cap {"global_drop", "ip_drop", "drop_rate_limited"} # {}
LvAdmitted(p) ==
    pkt = p /\ note \cap {"global_drop", "ip_drop", "drop_rate_limited"} = {}

\* no other source takes part in the budget that source p is counted in
LvOwnBudget(p) ==
    \/ prog = "lv_er"
    \/ rate_limit_config_map.global_pps_limit = 0
    \/ pkts = {p}

\* C40 as stated: while the clock keeps advancing and the source keeps
\* sending, every rejection of a packet of a source by check_ip_rate_limit,
\* check_global_rate_limit (rate_limit.c) or check_rate_limit
\* (enhanced_rules.c) is followed by the admission of a later packet of
\* that source.
C40_EverySourceAdmittedAgain ==
    \A p \in LvSrcs : LvRejected(p) ~> LvAdmitted(p)

\* C40, amended: the same for the limiters that count the source alone
\* (check_rate_limit, check_ip_rate_limit without a global limit, and
\* check_global_rate_limit while no other source sends); and under a global
\* limit that several sources share, every rejection is followed by the
\* admission of a later packet of some source.
C40_RejectionNotPermanent ==
    /\ \A p \in LvSrcs : (LvRejected(p) /\ LvOwnBudget(p)) ~> LvAdmitted(p)
    /\ \A p \in LvSrcs : LvRejected(p) ~> (\E q \in LvSrcs : LvAdmitted(q))

\* a packet of a source was rejected while the source is counted alone, and
\* the clock went on
C40_Witness ==
    /\ LvRejected(12) /\ LvOwnBudget(12)
    /\ now = MaxTime
===========================================================================
